---- MODULE Spec2Model ----
(***************************************************************************)
(* State-machine model of the resume-analysis backend: the in-memory       *)
(* session store (SessionManager), the SSE connection registry            *)
(* (SSEManager), the two workflow orchestrators (routes/upload.js and      *)
(* routes/process.js) and the HTTP handlers that drive them.               *)
(*                                                                         *)
(* One model step is one run of JavaScript between two suspension points:  *)
(* a request handler up to its first await, or the continuation of a       *)
(* workflow after an awaited collaborator call or timer returns.           *)
(***************************************************************************)
EXTENDS Integers, Sequences, FiniteSets, TLC

VARIABLES
    sessions,     \* SessionManager.sessions: Map sessionId -> session object
    connections,  \* SSEManager.connections: Map sessionId -> Set of responses
    streams,      \* the response objects: the job they asked for and their transport state
    recv,         \* per response object, what has been written to it
    seq,          \* per session, how many events broadcastToSession has fanned out
    out,          \* the events handed to broadcastToSession by the last step, in order
    edges,        \* per session, the status changes SessionManager.updateSession made
    runs,         \* the workflow invocations (async functions) and where each is suspended
    resp,         \* the HTTP response the last step sent, if it was a request handler
    now,          \* the clock (Date.now()), in units of 60 minutes
    hasKey,       \* whether process.env.GEMINI_API_KEY is set
    ids,          \* the identifiers uuidv4() has yet to hand out to POST /upload-and-process
    legacyIds     \* the identifiers uuidv4() has yet to hand out to POST /upload

vars == <<sessions, connections, streams, recv, seq, out, edges, runs, resp, now, hasKey, ids,
          legacyIds>>

----------------------------------------------------------------------------
(* Bounds of the model *)

MaxChunks == 2     \* streamed chunks per analysis attempt
MaxRuns == 2       \* workflow invocations in one behaviour
MaxTime == 3       \* clock ticks in one behaviour
MaxBeats == 1      \* heartbeats written to one response in one behaviour

(* Program constants *)

maxRetries == 3                \* analyzeWithRetry: const maxRetries = 3
defaultExpirationTime == 1     \* SessionManager: 60 minutes, in clock units of 60 minutes
BackoffBase == 1000
BackoffCap == 10000

SessionIds == {"S1", "S2"}
StreamIds == {"c1", "c2"}
Null == "null"

----------------------------------------------------------------------------
(* SessionManager *)

\* a faulty expiry test: only a session without expiresAt counts as expired
isSessionExpiredNever(session, t) == "expiresAt" \notin DOMAIN session

\* isSessionExpired(session): now > expiresAt; a session without expiresAt counts as expired
isSessionExpired(session, t) ==
    IF "expiresAt" \notin DOMAIN session THEN TRUE ELSE t > session.expiresAt

\* Map.delete
MapDelete(m, k) == [x \in (DOMAIN m) \ {k} |-> m[x]]

\* Map.set
MapSet(m, k, v) == [x \in (DOMAIN m) \cup {k} |-> IF x = k THEN v ELSE m[x]]

\* createSession(initialData): defaults, then the caller's fields spread over them
createSession(m, initialData, t) ==
    LET sessionId == initialData.sessionId
        defaults == [sessionId |-> sessionId, status |-> "created", createdAt |-> t,
                     updatedAt |-> t, expiresAt |-> t + defaultExpirationTime,
                     retryCount |-> 0, feedback |-> Null, lastError |-> Null]
        session == [f \in (DOMAIN defaults) \cup (DOMAIN initialData) |->
                       IF f \in DOMAIN initialData THEN initialData[f] ELSE defaults[f]]
    IN  MapSet(m, sessionId, session)

\* getSession(sessionId): the store afterwards (an expired session is deleted)
getSessionStore(m, sessionId, t) ==
    IF sessionId \in DOMAIN m /\ isSessionExpired(m[sessionId], t)
    THEN MapDelete(m, sessionId) ELSE m

\* what getSession returns for "no session" (null)
NoSession == [sessionId |-> Null]

\* getSession(sessionId): the value returned (a copy, or null)
getSession(m, sessionId, t) ==
    IF sessionId \notin DOMAIN m THEN NoSession
    ELSE IF isSessionExpired(m[sessionId], t) THEN NoSession
    ELSE m[sessionId]

\* updateSession(sessionId, updateData): whether it updates
updateSessionOk(m, sessionId, t) ==
    sessionId \in DOMAIN m /\ ~isSessionExpired(m[sessionId], t)

\* a faulty updateSession: the caller's fields are spread last, over sessionId and
\* updatedAt
updateSessionSpreadLast(m, sessionId, updateData, t) ==
    IF ~updateSessionOk(m, sessionId, t) THEN m
    ELSE LET session == m[sessionId]
             updatedSession ==
                 [f \in (DOMAIN session) \cup (DOMAIN updateData) |->
                     IF f \in DOMAIN updateData THEN updateData[f]
                     ELSE IF f = "updatedAt" THEN t
                     ELSE session[f]]
         IN  MapSet(m, sessionId, updatedSession)

\* updateSession(sessionId, updateData): the store afterwards
updateSession(m, sessionId, updateData, t) ==
    IF ~updateSessionOk(m, sessionId, t) THEN m
    ELSE LET session == m[sessionId]
             updatedSession ==
                 [f \in (DOMAIN session) \cup (DOMAIN updateData) |->
                     IF f = "sessionId" THEN sessionId
                     ELSE IF f = "updatedAt" THEN t
                     ELSE IF f \in DOMAIN updateData THEN updateData[f]
                     ELSE session[f]]
         IN  MapSet(m, sessionId, updatedSession)

\* sessionExists(sessionId): the value returned
sessionExists(m, sessionId, t) ==
    sessionId \in DOMAIN m /\ ~isSessionExpired(m[sessionId], t)

\* getActiveSessions(): copies of the sessions that are not expired
getActiveSessions(m, t) == {m[x] : x \in {y \in DOMAIN m : ~isSessionExpired(m[y], t)}}

\* getSessionCount(): how many sessions are not expired
getSessionCount(m, t) == Cardinality({x \in DOMAIN m : ~isSessionExpired(m[x], t)})

\* a faulty cleanupExpiredSessions: the sessions that expire at this very instant go
\* as well
cleanupExpiredSessionsEarly(m, t) ==
    [x \in {y \in DOMAIN m : ~isSessionExpired(m[y], t + 1)} |-> m[x]]

\* cleanupExpiredSessions(): the store afterwards
cleanupExpiredSessions(m, t) ==
    [x \in {y \in DOMAIN m : ~isSessionExpired(m[y], t)} |-> m[x]]

\* cleanupExpiredSessions(): the value returned
cleanedCount(m, t) == Cardinality({x \in DOMAIN m : isSessionExpired(m[x], t)})

\* extendSession(sessionId): expiresAt + defaultExpirationTime through updateSession
extendSession(m, sessionId, t) ==
    IF sessionId \notin DOMAIN m \/ isSessionExpired(m[sessionId], t) THEN m
    ELSE updateSession(m, sessionId,
                       [expiresAt |-> m[sessionId].expiresAt + defaultExpirationTime], t)

----------------------------------------------------------------------------
(* SSEManager *)

\* res.destroyed || res.finished
isDead(st) == st \in {"destroyed", "finished", "closed"}

\* a faulty removeConnection: the job's whole entry is dropped
removeConnectionAll(conns, sessionId, c) ==
    IF sessionId \notin DOMAIN conns THEN conns ELSE MapDelete(conns, sessionId)

\* removeConnection(sessionId, res)
removeConnection(conns, sessionId, c) ==
    IF sessionId \notin DOMAIN conns THEN conns
    ELSE LET sessionConnections == conns[sessionId] \ {c}
         IN  IF sessionConnections = {} THEN MapDelete(conns, sessionId)
             ELSE MapSet(conns, sessionId, sessionConnections)

RECURSIVE removeConnections(_, _, _)
\* deadConnections.forEach(res => this.removeConnection(sessionId, res))
removeConnections(conns, sessionId, dead) ==
    IF dead = {} THEN conns
    ELSE LET c == CHOOSE x \in dead : TRUE
         IN  removeConnections(removeConnection(conns, sessionId, c), sessionId, dead \ {c})

\* what the model keeps of an event written to a response: its number, its type,
\* of a retry.started the attempt number, and of an analysis.streaming the chunk
Written(eventData) ==
    [seq |-> eventData.seq, type |-> eventData.type,
     attempt |-> IF "attempt" \in DOMAIN eventData THEN eventData.attempt ELSE 0,
     chunk |-> IF "chunk" \in DOMAIN eventData THEN eventData.chunk ELSE 0]

\* sendEvent(res, eventType, data): one more entry written to the response, unless it is
\* destroyed or finished; when res.write throws ("broken") the catch block logs the
\* error and nothing is written
sendEvent(rcv, strs, c, entry) ==
    IF isDead(strs[c].state) THEN rcv
    ELSE IF strs[c].state = "broken" THEN rcv
    ELSE [rcv EXCEPT ![c] = Append(@, entry)]

\* a faulty fan-out: the loop over the job's responses stops after the first one
sendFirst(rcv, strs, cs, entry) ==
    IF cs = {} THEN rcv
    ELSE sendEvent(rcv, strs, CHOOSE x \in cs : TRUE, entry)

RECURSIVE sendUntilFailure(_, _, _, _)
\* a faulty loop: the first response whose write fails ends the fan-out
sendUntilFailure(rcv, strs, cs, entry) ==
    IF cs = {} THEN rcv
    ELSE LET c == CHOOSE x \in cs : TRUE
         IN  IF strs[c].state = "broken" THEN rcv
             ELSE sendUntilFailure(sendEvent(rcv, strs, c, entry), strs, cs \ {c}, entry)

RECURSIVE sendAll(_, _, _, _)
\* for (const res of ...) this.sendEvent(res, eventType, eventData)
sendAll(rcv, strs, cs, entry) ==
    IF cs = {} THEN rcv
    ELSE LET c == CHOOSE x \in cs : TRUE
         IN  sendAll(sendEvent(rcv, strs, c, entry), strs, cs \ {c}, entry)

\* The world the synchronous code of one step works on.
World == [sessions |-> sessions, connections |-> connections, streams |-> streams,
          recv |-> recv, seq |-> seq, out |-> <<>>, edges |-> edges]

\* the responses broadcastToSession writes to
LiveOf(W, sessionId) ==
    IF sessionId \notin DOMAIN W.connections THEN {}
    ELSE {c \in W.connections[sessionId] : ~isDead(W.streams[c].state)}

\* a faulty broadcastToSession: a job without responses gets an empty set of them
\* in the registry, and its event is numbered
broadcastToSessionRegistering(W, sessionId, event) ==
    LET sessionConnections ==
            IF sessionId \in DOMAIN W.connections THEN W.connections[sessionId] ELSE {}
        n == W.seq[sessionId] + 1
        eventData == [f \in {"sessionId", "seq"} \cup DOMAIN event |->
                         IF f \in DOMAIN event THEN event[f]
                         ELSE IF f = "seq" THEN n ELSE sessionId]
        live == LiveOf(W, sessionId)
    IN  [W EXCEPT !.out = Append(@, eventData),
                  !.seq[sessionId] = n,
                  !.recv = sendAll(W.recv, W.streams, live, Written(eventData)),
                  !.connections = removeConnections(MapSet(W.connections, sessionId,
                                                           sessionConnections),
                                                    sessionId, sessionConnections \ live)]

\* broadcastToSession(sessionId, eventType, data): with no registered response it
\* returns at once; otherwise the event is numbered and written to each live
\* response (0 in `out` marks an event that went to nobody)
broadcastToSession(W, sessionId, event) ==
    LET sessionConnections ==
            IF sessionId \in DOMAIN W.connections THEN W.connections[sessionId] ELSE {}
        n == IF sessionConnections = {} THEN 0 ELSE W.seq[sessionId] + 1
        eventData == [f \in {"sessionId", "seq"} \cup DOMAIN event |->
                         IF f \in DOMAIN event THEN event[f]
                         ELSE IF f = "seq" THEN n ELSE sessionId]
        W1 == [W EXCEPT !.out = Append(@, eventData)]
        live == LiveOf(W, sessionId)
        deadConnections == sessionConnections \ live
    IN  IF sessionConnections = {} THEN W1
        ELSE [W1 EXCEPT !.seq[sessionId] = n,
                        !.recv = sendAll(W.recv, W.streams, live, Written(eventData)),
                        !.connections = removeConnections(W.connections, sessionId,
                                                          deadConnections)]

----------------------------------------------------------------------------
(* EventBroadcaster: one envelope per domain occurrence, handed to the registry *)

broadcastExtractionStarted(W, sessionId) ==
    broadcastToSession(W, sessionId, [type |-> "extraction.started"])

broadcastExtractionCompleted(W, sessionId) ==
    broadcastToSession(W, sessionId, [type |-> "extraction.completed"])

broadcastAnalysisStarted(W, sessionId) ==
    broadcastToSession(W, sessionId, [type |-> "analysis.started"])

broadcastAnalysisStreaming(W, sessionId, chunk) ==
    broadcastToSession(W, sessionId, [type |-> "analysis.streaming", chunk |-> chunk])

broadcastAnalysisCompleted(W, sessionId, feedback) ==
    broadcastToSession(W, sessionId, [type |-> "analysis.completed", feedback |-> feedback])

broadcastRetryStarted(W, sessionId, retryCount) ==
    broadcastToSession(W, sessionId, [type |-> "retry.started", attempt |-> retryCount])

broadcastError(W, sessionId, message, details) ==
    broadcastToSession(W, sessionId,
                       [type |-> "error", message |-> message, details |-> details])

----------------------------------------------------------------------------
(* GeminiService *)

MsgNotFound == "AI model not found. Please check if the model name is correct and available."
MsgUnauthorized == "Unauthorized access to AI service. Please check your API key."
MsgRateLimit == "Rate limit exceeded. Please try again later."
MsgUnavailable == "AI service temporarily unavailable. Please try again later."
MsgFailedKey == "AI analysis failed: API key not valid. Please pass a valid API key."
MsgFailedOther == "AI analysis failed: fetch failed"

\* The failures of the provider's generateContentStream: an HTTP-like status (0: none)
\* and the provider's own message, of which only one distinction matters below.
ProviderErrors ==
    { [status |-> 404, keyText |-> FALSE], [status |-> 401, keyText |-> FALSE],
      [status |-> 429, keyText |-> FALSE], [status |-> 503, keyText |-> FALSE],
      [status |-> 400, keyText |-> TRUE],  [status |-> 0, keyText |-> FALSE] }

\* analyzeResumeStreaming, catch block: the message of the Error it throws
ThrownMessage(error) ==
    IF error.status = 404 THEN MsgNotFound
    ELSE IF error.status = 401 THEN MsgUnauthorized
    ELSE IF error.status = 429 THEN MsgRateLimit
    ELSE IF error.status >= 500 THEN MsgUnavailable
    ELSE IF error.keyText THEN MsgFailedKey
    ELSE MsgFailedOther

\* String.prototype.includes on the messages above, for the three needles the
\* orchestrator searches
Includes(message, needle) ==
    CASE needle = "model not found" -> message = MsgNotFound
      [] needle = "Unauthorized"    -> message = MsgUnauthorized
      [] needle = "API key"         -> message \in {MsgUnauthorized, MsgFailedKey}
      [] OTHER -> FALSE

\* Response texts of the provider, as sequences of tokens: "{" and "}" are the
\* braces, "J" stands for the members of a complete feedback object, "P" for
\* members that parse but miss a required field, "x" for any other text.
Responses ==
    { <<"{", "J", "}">>, <<"x", "{", "J", "}", "x">>, <<"{", "P", "}">>,
      <<"x">>, <<"}", "x", "{">>, <<"{", "J", "}", "}">>, <<"{", "x">> }

\* String.prototype.indexOf: 0-based position of the first ch, or -1
indexOf(text, ch) ==
    IF \E i \in 1..Len(text) : text[i] = ch
    THEN (CHOOSE i \in 1..Len(text) : text[i] = ch /\ \A j \in 1..(i-1) : text[j] # ch) - 1
    ELSE -1

\* String.prototype.lastIndexOf: 0-based position of the last ch, or -1
lastIndexOf(text, ch) ==
    IF \E i \in 1..Len(text) : text[i] = ch
    THEN (CHOOSE i \in 1..Len(text) : text[i] = ch /\ \A j \in (i+1)..Len(text) : text[j] # ch) - 1
    ELSE -1

\* String.prototype.substring(a, b): the arguments are swapped when a > b
substring(text, a, b) ==
    LET lo == IF a <= b THEN a ELSE b
        hi == IF a <= b THEN b ELSE a
    IN  SubSeq(text, lo + 1, hi)

FallbackFeedback == "fallback"

\* JSON.parse and validateFeedbackStructure on the extracted span: the feedback,
\* or "throws"
validated(jsonString) ==
    IF jsonString = <<"{", "J", "}">> THEN "J" ELSE "throws"

\* a faulty parseResponse: the parsed object is returned without
\* validateFeedbackStructure
parseResponseUnvalidated(response) ==
    LET jsonStart == indexOf(response, "{")
        jsonEnd == lastIndexOf(response, "}")
        jsonString == substring(response, jsonStart, jsonEnd + 1)
    IN  IF jsonStart = -1 \/ jsonEnd = -1 THEN FallbackFeedback
        ELSE IF Len(jsonString) = 3 /\ jsonString[1] = "{" /\ jsonString[3] = "}"
                  /\ jsonString[2] \in {"J", "P"}
        THEN jsonString[2]
        ELSE FallbackFeedback

\* parseResponse(response)
parseResponse(response) ==
    LET jsonStart == indexOf(response, "{")
        jsonEnd == lastIndexOf(response, "}")
    IN  IF jsonStart = -1 \/ jsonEnd = -1 THEN FallbackFeedback
        ELSE LET parsed == validated(substring(response, jsonStart, jsonEnd + 1))
             IN  IF parsed = "throws" THEN FallbackFeedback ELSE parsed

----------------------------------------------------------------------------
(* The orchestrators' writes to the session store *)

\* sessionManager.updateSession as the orchestrators and handlers call it: the store
\* afterwards, and the status change it made, if any
Upd(W, sessionId, updateData, t) ==
    LET ok == updateSessionOk(W.sessions, sessionId, t)
        old == IF ok THEN W.sessions[sessionId].status ELSE Null
        changed == ok /\ "status" \in DOMAIN updateData /\ updateData.status # old
    IN  [W EXCEPT !.sessions = updateSession(W.sessions, sessionId, updateData, t),
                  !.edges = IF changed
                            THEN [W.edges EXCEPT ![sessionId] = @ \cup {<<old, updateData.status>>}]
                            ELSE W.edges]

----------------------------------------------------------------------------
(* routes/upload.js: processResumeWorkflow and analyzeWithRetry *)

\* a faulty delay: the exponent is the attempt number itself
BackoffOffByOne(retryCount) ==
    LET d == BackoffBase * 2 ^ retryCount
    IN  IF d < BackoffCap THEN d ELSE BackoffCap

\* Math.min(1000 * Math.pow(2, retryCount - 1), 10000)
Backoff(retryCount) ==
    LET d == BackoffBase * 2 ^ (retryCount - 1)
    IN  IF d < BackoffCap THEN d ELSE BackoffCap

\* a faulty entry of analyzeWithRetry: a retry marks the session retrying but
\* does not store the attempt number
analyzeEnterUncounted(W, sessionId, retryCount, t) ==
    IF retryCount > 0
    THEN broadcastRetryStarted(Upd(W, sessionId, [status |-> "retrying"], t),
                               sessionId, retryCount)
    ELSE broadcastAnalysisStarted(Upd(W, sessionId, [status |-> "analyzing"], t), sessionId)

\* analyzeWithRetry (upload.js), from its entry to its first await
analyzeEnterU(W, sessionId, retryCount, t) ==
    IF retryCount > 0
    THEN broadcastRetryStarted(
             Upd(W, sessionId, [status |-> "retrying", retryCount |-> retryCount], t),
             sessionId, retryCount)
    ELSE broadcastAnalysisStarted(Upd(W, sessionId, [status |-> "analyzing"], t), sessionId)

\* a faulty success branch: the result is stored only while the job has an entry in
\* the registry
analyzeDoneUIfWatched(W, sessionId, feedback, t) ==
    broadcastAnalysisCompleted(
        IF sessionId \in DOMAIN W.connections
        THEN Upd(W, sessionId,
                 [status |-> "completed", feedback |-> feedback, completedAt |-> t], t)
        ELSE W,
        sessionId, feedback)

\* a faulty success branch: the run gives up, without an event, when the session can
\* no longer be updated
analyzeDoneUIfStored(W, sessionId, feedback, t) ==
    IF ~updateSessionOk(W.sessions, sessionId, t) THEN W
    ELSE broadcastAnalysisCompleted(
             Upd(W, sessionId,
                 [status |-> "completed", feedback |-> feedback, completedAt |-> t], t),
             sessionId, feedback)

\* analyzeWithRetry (upload.js): analysis completed successfully
analyzeDoneU(W, sessionId, feedback, t) ==
    broadcastAnalysisCompleted(
        Upd(W, sessionId, [status |-> "completed", feedback |-> feedback, completedAt |-> t], t),
        sessionId, feedback)

\* analyzeWithRetry (upload.js), catch block: isRetryableError
isRetryableError(message) ==
    ~(Includes(message, "model not found") \/ Includes(message, "Unauthorized")
        \/ Includes(message, "API key"))

\* analyzeWithRetry (upload.js), catch block: whether geminiService.reinitializeModel()
\* is called and replaces the model
reinitializesU(message, reinitSuccess) ==
    Includes(message, "model not found") /\ reinitSuccess

\* analyzeWithRetry (upload.js), catch block: whether it calls itself again
retriesU(message, retryCount, reinitSuccess) ==
    \/ Includes(message, "model not found") /\ reinitSuccess /\ retryCount < maxRetries
    \/ isRetryableError(message) /\ retryCount < maxRetries

\* a faulty terminal branch: the error is stored without the status
analyzeFailUStatusKept(W, sessionId, message, retryCount, t) ==
    broadcastError(
        Upd(W, sessionId, [lastError |-> message, retryCount |-> retryCount + 1], t),
        sessionId, message,
        [code |-> "AI_ANALYSIS_FAILED", stage |-> "analysis",
         retryable |-> isRetryableError(message), retryCount |-> retryCount + 1])

\* analyzeWithRetry (upload.js), catch block: max retries exceeded or non-retryable error
analyzeFailU(W, sessionId, message, retryCount, t) ==
    broadcastError(
        Upd(W, sessionId, [status |-> "error", lastError |-> message,
                           retryCount |-> retryCount + 1], t),
        sessionId, message,
        [code |-> "AI_ANALYSIS_FAILED", stage |-> "analysis",
         retryable |-> isRetryableError(message), retryCount |-> retryCount + 1])

\* processResumeWorkflow (upload.js): GeminiService construction failed
initFailU(W, sessionId, t) ==
    broadcastError(
        Upd(W, sessionId, [status |-> "error", lastError |-> "AI service initialization failed"], t),
        sessionId, "AI service initialization failed",
        [code |-> "AI_INIT_ERROR", stage |-> "initialization", retryable |-> FALSE])

\* processResumeWorkflow (upload.js): step 1, up to the await of extractText
extractEnterU(W, sessionId, t) ==
    broadcastExtractionStarted(Upd(W, sessionId, [status |-> "extracting"], t), sessionId)

\* processResumeWorkflow (upload.js): extractionResult.success is false
extractFailU(W, sessionId, t) ==
    broadcastError(
        Upd(W, sessionId, [status |-> "error", lastError |-> "extraction failed"], t),
        sessionId, "extraction failed",
        [code |-> "EXTRACTION_ERROR", stage |-> "extraction", retryable |-> FALSE])

\* processResumeWorkflow (upload.js): step 2, extraction completed
extractDoneU(W, sessionId, t) ==
    broadcastExtractionCompleted(
        Upd(W, sessionId, [status |-> "extracted", extractedText |-> "text"], t), sessionId)

\* processResumeWorkflow (upload.js): the catch block around the stages
workflowErrorU(W, sessionId, t) ==
    broadcastError(
        Upd(W, sessionId, [status |-> "error", lastError |-> "extractText rejected"], t),
        sessionId, "extractText rejected",
        [code |-> "WORKFLOW_ERROR", stage |-> "processing", retryable |-> TRUE])

----------------------------------------------------------------------------
(* routes/process.js: processResumeWorkflow and analyzeWithRetry *)

\* analyzeWithRetry (process.js), from its entry to its first await
analyzeEnterP(W, sessionId, retryCount) ==
    IF retryCount > 0 THEN broadcastRetryStarted(W, sessionId, retryCount)
    ELSE broadcastAnalysisStarted(W, sessionId)

\* analyzeWithRetry (process.js): analysis completed successfully
analyzeDoneP(W, sessionId, feedback) == broadcastAnalysisCompleted(W, sessionId, feedback)

\* analyzeWithRetry (process.js), catch block: whether it calls itself again
retriesP(message, retryCount) == retryCount < maxRetries

\* analyzeWithRetry (process.js), catch block: max retries exceeded
analyzeFailP(W, sessionId, retryCount) ==
    broadcastError(W, sessionId, "AI analysis failed after multiple attempts",
        [code |-> "AI_ANALYSIS_FAILED", stage |-> "analysis", retryable |-> FALSE,
         retryCount |-> retryCount + 1])

\* processResumeWorkflow (process.js): GeminiService construction failed
initFailP(W, sessionId) ==
    broadcastError(W, sessionId, "AI service initialization failed",
        [code |-> "AI_INIT_ERROR", stage |-> "initialization", retryable |-> FALSE])

\* processResumeWorkflow (process.js): step 1, up to the await of extractText
extractEnterP(W, sessionId) == broadcastExtractionStarted(W, sessionId)

\* processResumeWorkflow (process.js): extractionResult.success is false
extractFailP(W, sessionId) ==
    broadcastError(W, sessionId, "extraction failed",
        [code |-> "EXTRACTION_ERROR", stage |-> "extraction", retryable |-> FALSE])

\* processResumeWorkflow (process.js): extraction completed
extractDoneP(W, sessionId) == broadcastExtractionCompleted(W, sessionId)

\* processResumeWorkflow (process.js): the catch block around the stages
workflowErrorP(W, sessionId) ==
    broadcastError(W, sessionId, "extractText rejected",
        [code |-> "WORKFLOW_ERROR", stage |-> "processing", retryable |-> TRUE])

----------------------------------------------------------------------------
(* Workflow invocations *)

\* the two orchestrators, by the route file that defines them
analyzeEnter(W, kind, sessionId, retryCount, t) ==
    IF kind = "upload" THEN analyzeEnterU(W, sessionId, retryCount, t)
    ELSE analyzeEnterP(W, sessionId, retryCount)

analyzeDone(W, kind, sessionId, feedback, t) ==
    IF kind = "upload" THEN analyzeDoneU(W, sessionId, feedback, t)
    ELSE analyzeDoneP(W, sessionId, feedback)

retries(kind, message, retryCount, reinitSuccess) ==
    IF kind = "upload" THEN retriesU(message, retryCount, reinitSuccess)
    ELSE retriesP(message, retryCount)

reinitializes(kind, message, reinitSuccess) ==
    kind = "upload" /\ reinitializesU(message, reinitSuccess)

analyzeFail(W, kind, sessionId, message, retryCount, t) ==
    IF kind = "upload" THEN analyzeFailU(W, sessionId, message, retryCount, t)
    ELSE analyzeFailP(W, sessionId, retryCount)

extractDone(W, kind, sessionId, t) ==
    IF kind = "upload" THEN extractDoneU(W, sessionId, t) ELSE extractDoneP(W, sessionId)

extractFail(W, kind, sessionId, t) ==
    IF kind = "upload" THEN extractFailU(W, sessionId, t) ELSE extractFailP(W, sessionId)

workflowError(W, kind, sessionId, t) ==
    IF kind = "upload" THEN workflowErrorU(W, sessionId, t) ELSE workflowErrorP(W, sessionId)

\* a faulty entry: the extraction is announced before the GeminiService is constructed
startWorkflowAnnouncing(W, kind, sessionId, key, t) ==
    LET W1 == IF kind = "upload" THEN extractEnterU(W, sessionId, t)
              ELSE extractEnterP(W, sessionId)
    IN  IF key THEN W1
        ELSE (IF kind = "upload" THEN initFailU(W1, sessionId, t) ELSE initFailP(W1, sessionId))

\* processResumeWorkflow, from its entry to its first await (or its return)
startWorkflow(W, kind, sessionId, key, t) ==
    IF ~key
    THEN (IF kind = "upload" THEN initFailU(W, sessionId, t) ELSE initFailP(W, sessionId))
    ELSE (IF kind = "upload" THEN extractEnterU(W, sessionId, t) ELSE extractEnterP(W, sessionId))

\* the invocation record of a processResumeWorkflow call that has run to its first
\* await: the job, the orchestrator, where it is suspended, the attempt index
\* (analyzeWithRetry's retryCount), the chunks of the attempt in progress, the analysis
\* calls and backoff sleeps so far, the last delay slept, the start events it emitted,
\* whether reinitializeModel() has replaced the model of its GeminiService, and how
\* it returned
newRun(kind, sessionId, key) ==
    [sid |-> sessionId, kind |-> kind, pc |-> IF key THEN "extract" ELSE "done",
     n |-> 0, chunks |-> 0, calls |-> 0, sleeps |-> 0, delay |-> 0, starts |-> <<>>,
     reinit |-> FALSE, result |-> IF key THEN "none" ELSE "init-error"]

IsStart(e) == e.type \in {"analysis.started", "retry.started"}

\* the start events among a sequence of events: 0 for analysis.started, the
\* attempt number for retry.started
StartsOf(events) ==
    LET sel == SelectSeq(events, IsStart)
    IN  [i \in 1..Len(sel) |-> IF sel[i].type = "analysis.started" THEN 0 ELSE sel[i].attempt]

Commit(W) ==
    /\ sessions' = W.sessions
    /\ connections' = W.connections
    /\ streams' = W.streams
    /\ recv' = W.recv
    /\ seq' = W.seq
    /\ out' = W.out
    /\ edges' = W.edges

EmptyMap == [x \in {} |-> Null]
NoResp == [op |-> "none"]

----------------------------------------------------------------------------
(* Request handlers *)

\* POST /api/upload-and-process, after upload and validation: createSession, the
\* response, and processResumeWorkflow up to its first await; `thrown` is an
\* exception between createSession and the workflow call (the handler's catch)
Upload(sessionId, thrown) ==
    /\ sessionId \in ids
    /\ Len(runs) < MaxRuns
    /\ LET W0 == [World EXCEPT !.sessions =
                     createSession(sessions, [sessionId |-> sessionId, status |-> "uploaded"], now)]
       IN  IF thrown
           THEN /\ Commit(IF sessionExists(W0.sessions, sessionId, now)
                          THEN broadcastError(
                                   Upd(W0, sessionId, [status |-> "error",
                                                       lastError |-> "upload handler error"], now),
                                   sessionId, "upload handler error",
                                   [code |-> "UPLOAD_PROCESSING_ERROR", stage |-> "upload",
                                    retryable |-> FALSE])
                          ELSE W0)
                /\ resp' = [op |-> "upload", sid |-> sessionId, status |-> 500,
                            code |-> "UPLOAD_PROCESSING_ERROR"]
                /\ runs' = runs
           ELSE /\ Commit(startWorkflow(W0, "upload", sessionId, hasKey, now))
                /\ resp' = [op |-> "upload", sid |-> sessionId, status |-> 200,
                            code |-> "processing"]
                /\ runs' = Append(runs, newRun("upload", sessionId, hasKey))
    /\ ids' = ids \ {sessionId}
    /\ UNCHANGED <<now, hasKey, legacyIds>>

\* POST /api/upload (legacy): createSession and the response, no workflow
UploadLegacy(sessionId) ==
    /\ sessionId \in legacyIds
    /\ Commit([World EXCEPT !.sessions =
                  createSession(sessions, [sessionId |-> sessionId, status |-> "uploaded"], now)])
    /\ resp' = [op |-> "upload-legacy", sid |-> sessionId, status |-> 200, code |-> "uploaded"]
    /\ legacyIds' = legacyIds \ {sessionId}
    /\ UNCHANGED <<runs, now, hasKey, ids>>

\* POST /api/process/:sessionId
Process(sessionId) ==
    /\ Len(runs) < MaxRuns
    /\ LET session == getSession(sessions, sessionId, now)
           W0 == [World EXCEPT !.sessions = getSessionStore(sessions, sessionId, now)]
       IN  IF session = NoSession
           THEN /\ Commit(W0)
                /\ resp' = [op |-> "process", sid |-> sessionId, status |-> 404,
                            code |-> "SESSION_NOT_FOUND"]
                /\ runs' = runs
           ELSE /\ Commit(startWorkflow(W0, "process", sessionId, hasKey, now))
                /\ resp' = [op |-> "process", sid |-> sessionId, status |-> 200,
                            code |-> "processing"]
                /\ runs' = Append(runs, newRun("process", sessionId, hasKey))
    /\ UNCHANGED <<now, hasKey, ids, legacyIds>>

\* POST /api/process/:sessionId/retry
ProcessRetry(sessionId) ==
    /\ Len(runs) < MaxRuns
    /\ LET session == getSession(sessions, sessionId, now)
           W0 == [World EXCEPT !.sessions = getSessionStore(sessions, sessionId, now)]
       IN  IF session = NoSession
           THEN /\ Commit(W0)
                /\ resp' = [op |-> "process-retry", sid |-> sessionId, status |-> 404,
                            code |-> "SESSION_NOT_FOUND"]
                /\ runs' = runs
           ELSE /\ Commit(startWorkflow(
                              Upd(W0, sessionId, [status |-> "retrying", lastError |-> Null,
                                                  retryCount |-> session.retryCount + 1], now),
                              "process", sessionId, hasKey, now))
                /\ resp' = [op |-> "process-retry", sid |-> sessionId, status |-> 200,
                            code |-> "Retry started", retryCount |-> session.retryCount + 1]
                /\ runs' = Append(runs, newRun("process", sessionId, hasKey))
    /\ UNCHANGED <<now, hasKey, ids, legacyIds>>

\* POST /api/events/:sessionId/retry
SseRetry(sessionId) ==
    /\ LET session == getSession(sessions, sessionId, now)
           W0 == [World EXCEPT !.sessions = getSessionStore(sessions, sessionId, now)]
       IN  IF session = NoSession
           THEN /\ Commit(W0)
                /\ resp' = [op |-> "sse-retry", sid |-> sessionId, status |-> 404,
                            code |-> "SESSION_NOT_FOUND"]
           ELSE IF session.status # "error"
           THEN /\ Commit(W0)
                /\ resp' = [op |-> "sse-retry", sid |-> sessionId, status |-> 400,
                            code |-> "INVALID_SESSION_STATE"]
           ELSE LET newRetryCount == session.retryCount + 1
                IN  IF newRetryCount > 3
                    THEN /\ Commit(W0)
                         /\ resp' = [op |-> "sse-retry", sid |-> sessionId, status |-> 400,
                                     code |-> "MAX_RETRIES_EXCEEDED"]
                    ELSE /\ Commit(broadcastRetryStarted(
                                       Upd(W0, sessionId, [status |-> "retrying",
                                                           retryCount |-> newRetryCount,
                                                           lastError |-> Null], now),
                                       sessionId, newRetryCount))
                         /\ resp' = [op |-> "sse-retry", sid |-> sessionId, status |-> 200,
                                     code |-> "Retry initiated", retryCount |-> newRetryCount]
    /\ UNCHANGED <<runs, now, hasKey, ids, legacyIds>>

----------------------------------------------------------------------------
(* Continuations of a workflow invocation *)

\* a continuation of invocation r that leaves the world as W and the invocation as run
Continue(r, W, run) ==
    /\ Commit(W)
    /\ runs' = [runs EXCEPT ![r] = [run EXCEPT !.starts = @ \o StartsOf(W.out)]]
    /\ resp' = NoResp
    /\ UNCHANGED <<now, hasKey, ids, legacyIds>>

\* a faulty continuation after the extraction: the analysis is entered before the
\* extraction is recorded as completed
afterExtractSwapped(W, run, outcome, t) ==
    CASE outcome = "ok" ->
           extractDone(analyzeEnter(W, run.kind, run.sid, 0, t), run.kind, run.sid, t)
      [] outcome = "fail" -> extractFail(W, run.kind, run.sid, t)
      [] OTHER -> workflowError(W, run.kind, run.sid, t)

\* processResumeWorkflow after await pdfExtractor.extractText(...): what it does to
\* the world when the extraction succeeded ("ok"), reported a failure ("fail") or
\* threw
afterExtract(W, run, outcome, t) ==
    CASE outcome = "ok" ->
           analyzeEnter(extractDone(W, run.kind, run.sid, t), run.kind, run.sid, 0, t)
      [] outcome = "fail" -> extractFail(W, run.kind, run.sid, t)
      [] OTHER -> workflowError(W, run.kind, run.sid, t)

\* the onChunk callback of analyzeWithRetry
afterChunk(W, run) == broadcastAnalysisStreaming(W, run.sid, run.chunks + 1)

\* analyzeWithRetry after analyzeResumeStreaming resolved with the text `response`
afterSuccess(W, run, response, t) ==
    analyzeDone(W, run.kind, run.sid, parseResponse(response), t)

\* a faulty catch block: a successful reinitializeModel() costs an attempt of its own
afterFailureSwitchCounted(W, run, error, reinitSuccess, t) ==
    IF retries(run.kind, ThrownMessage(error), run.n, reinitSuccess)
    THEN analyzeEnter(W, run.kind, run.sid,
                      IF run.kind = "upload" /\ reinitSuccess
                            /\ Includes(ThrownMessage(error), "model not found")
                      THEN run.n + 2 ELSE run.n + 1, t)
    ELSE analyzeFail(W, run.kind, run.sid, ThrownMessage(error), run.n, t)

\* analyzeWithRetry's catch block: the next attempt up to its backoff, or the
\* terminal error
afterFailure(W, run, error, reinitSuccess, t) ==
    IF retries(run.kind, ThrownMessage(error), run.n, reinitSuccess)
    THEN analyzeEnter(W, run.kind, run.sid, run.n + 1, t)
    ELSE analyzeFail(W, run.kind, run.sid, ThrownMessage(error), run.n, t)

\* await pdfExtractor.extractText(...) returns or rejects
ExtractReturn(r, outcome) ==
    /\ runs[r].pc = "extract"
    /\ LET run == runs[r]
       IN  Continue(r, afterExtract(World, run, outcome, now),
                    CASE outcome = "ok" -> [run EXCEPT !.pc = "analyze", !.calls = 1]
                      [] outcome = "fail" ->
                           [run EXCEPT !.pc = "done", !.result = "extraction-error"]
                      [] OTHER -> [run EXCEPT !.pc = "done", !.result = "workflow-error"])

\* the backoff timer fires: analyzeResumeStreaming is called
BackoffElapsed(r) ==
    /\ runs[r].pc = "backoff"
    /\ Continue(r, World, [runs[r] EXCEPT !.pc = "analyze", !.calls = @ + 1])

\* for await (const chunk of result.stream): one chunk, passed to onChunk
Chunk(r) ==
    /\ runs[r].pc = "analyze"
    /\ runs[r].chunks < MaxChunks
    /\ Continue(r, afterChunk(World, runs[r]), [runs[r] EXCEPT !.chunks = @ + 1])

\* analyzeResumeStreaming resolves: the stream ended with the full response text
AnalyzeSuccess(r, response) ==
    /\ runs[r].pc = "analyze"
    /\ Continue(r, afterSuccess(World, runs[r], response, now),
                [runs[r] EXCEPT !.pc = "done", !.chunks = 0, !.result = "completed"])

\* analyzeResumeStreaming rejects: the provider failed with `error`; reinitSuccess
\* is what geminiService.reinitializeModel() returns if it is called
AnalyzeFailure(r, error, reinitSuccess) ==
    /\ runs[r].pc = "analyze"
    /\ LET run == [runs[r] EXCEPT !.reinit = @ \/ reinitializes(runs[r].kind,
                                                               ThrownMessage(error),
                                                               reinitSuccess)]
       IN  Continue(r, afterFailure(World, run, error, reinitSuccess, now),
                    IF retries(run.kind, ThrownMessage(error), run.n, reinitSuccess)
                    THEN [run EXCEPT !.pc = "backoff", !.n = @ + 1, !.sleeps = @ + 1,
                                     !.delay = Backoff(run.n + 1), !.chunks = 0]
                    ELSE [run EXCEPT !.pc = "done", !.chunks = 0,
                                     !.result = "analysis-error"])

----------------------------------------------------------------------------
(* Subscribers *)

\* a faulty createConnection: the last event fanned out for the job is replayed to
\* the new response
createConnectionReplay(W, sessionId, c) ==
    LET opened == [W.streams EXCEPT ![c] = [sid |-> sessionId, state |-> "open",
                                            since |-> W.seq[sessionId]]]
        hello == sendEvent(W.recv, opened, c, Written([seq |-> 0, type |-> "connected"]))
    IN  [W EXCEPT !.streams = opened,
                  !.recv = IF W.seq[sessionId] = 0 THEN hello
                           ELSE sendEvent(hello, opened, c,
                                          Written([seq |-> W.seq[sessionId],
                                                   type |-> "replayed"])),
                  !.connections = MapSet(W.connections, sessionId,
                                         (IF sessionId \in DOMAIN W.connections
                                          THEN W.connections[sessionId] ELSE {}) \cup {c})]

\* createConnection(sessionId, res): the value returned, false for a missing job
\* identifier or response and true otherwise, whatever res.write does
createConnectionOk(sessionId, c) == sessionId # Null /\ c # Null

\* createConnection(sessionId, res): headers, the "connected" event (numbered 0),
\* registration; `since` notes how many events of the job had been fanned out before.
\* A fresh response is open; one whose writes already throw stays as it is, the
\* exception being swallowed by sendEvent
createConnection(W, sessionId, c) ==
    LET opened == [W.streams EXCEPT ![c] = [sid |-> sessionId,
                                            state |-> IF W.streams[c].state = "idle"
                                                      THEN "open" ELSE W.streams[c].state,
                                            since |-> W.seq[sessionId]]]
    IN  [W EXCEPT !.streams = opened,
                  !.recv = sendEvent(W.recv, opened, c, Written([seq |-> 0, type |-> "connected"])),
                  !.connections = MapSet(W.connections, sessionId,
                                         (IF sessionId \in DOMAIN W.connections
                                          THEN W.connections[sessionId] ELSE {}) \cup {c})]

\* GET /api/events/:sessionId, after createConnection: the snapshot
snapshot(W, sessionId, session) ==
    IF session.status = "completed" /\ session.feedback # Null
    THEN broadcastToSession(W, sessionId,
             [type |-> "analysis.completed", status |-> "completed",
              feedback |-> session.feedback])
    ELSE broadcastToSession(W, sessionId,
             [type |-> "session.status", status |-> session.status])

\* the session_closed event closeSessionConnections writes with sendEvent: it does
\* not pass through broadcastToSession and carries no number
SessionClosed == Written([seq |-> 0, type |-> "session_closed"])

RECURSIVE endAll(_, _, _)
\* closeSessionConnections, the loop: a response that is neither destroyed nor
\* finished is sent session_closed and ended; on a response whose writes throw the
\* write is swallowed by sendEvent and res.end() either throws too (endThrows,
\* caught by the loop) or ends it
endAll(W, cs, endThrows) ==
    IF cs = {} THEN W
    ELSE LET c == CHOOSE x \in cs : TRUE
             st == W.streams[c].state
             W1 == IF isDead(st) THEN W
                   ELSE [W EXCEPT !.recv = sendEvent(W.recv, W.streams, c, SessionClosed),
                                  !.streams[c].state =
                                      IF st = "broken" /\ endThrows THEN st ELSE "finished"]
         IN  endAll(W1, cs \ {c}, endThrows)

\* a faulty closeSessionConnections: the job's entry stays in the registry
closeSessionConnectionsKeeping(W, sessionId, endThrows) ==
    IF sessionId \notin DOMAIN W.connections THEN W
    ELSE endAll(W, W.connections[sessionId], endThrows)

\* getConnectionCount(sessionId)
getConnectionCount(conns, sessionId) ==
    IF sessionId \in DOMAIN conns THEN Cardinality(conns[sessionId]) ELSE 0

\* closeSessionConnections(sessionId)
closeSessionConnections(W, sessionId, endThrows) ==
    IF sessionId \notin DOMAIN W.connections THEN W
    ELSE LET W1 == endAll(W, W.connections[sessionId], endThrows)
         IN  [W1 EXCEPT !.connections = MapDelete(W1.connections, sessionId)]

\* DELETE /api/events/:sessionId
CloseConnections(sessionId, endThrows) ==
    /\ Commit(closeSessionConnections(World, sessionId, endThrows))
    /\ resp' = [op |-> "events-delete", sid |-> sessionId, status |-> 200,
                code |-> "SSE connections closed"]
    /\ UNCHANGED <<runs, now, hasKey, ids, legacyIds>>

\* the heartbeat event sendHeartbeat writes with sendEvent: it carries no number
HeartbeatData == Written([seq |-> 0, type |-> "heartbeat"])

RECURSIVE heartbeatAll(_, _)
\* sendHeartbeat, the loop over the jobs of the registry: a response that is neither
\* destroyed nor finished is sent the heartbeat, the others are removed
heartbeatAll(W, ss) ==
    IF ss = {} THEN W
    ELSE LET sessionId == CHOOSE x \in ss : TRUE
             sessionConnections == W.connections[sessionId]
             live == LiveOf(W, sessionId)
             deadConnections == sessionConnections \ live
             W1 == [W EXCEPT !.recv = sendAll(W.recv, W.streams, live, HeartbeatData),
                             !.connections = removeConnections(W.connections, sessionId,
                                                               deadConnections)]
         IN  heartbeatAll(W1, ss \ {sessionId})

\* a faulty sendHeartbeat: only the jobs whose session is in progress are served
sendHeartbeatInProgress(W) ==
    heartbeatAll(W, {s \in DOMAIN W.connections :
                        s \in DOMAIN W.sessions
                            /\ W.sessions[s].status \notin {"completed", "error"}})

\* sendHeartbeat()
sendHeartbeat(W) == heartbeatAll(W, DOMAIN W.connections)

\* a faulty cleanupDeadConnections: a job whose responses are all removed keeps its
\* entry, with an empty set
cleanupDeadConnectionsKeepingKeys(W) ==
    [W EXCEPT !.connections = [s \in DOMAIN W.connections |-> LiveOf(W, s)]]

\* a faulty cleanupDeadConnections: the responses whose writes throw go as well
cleanupDeadConnectionsFailing(W) ==
    LET kept(s) == {c \in W.connections[s] : W.streams[c].state = "open"}
    IN  [W EXCEPT !.connections =
            [s \in {x \in DOMAIN W.connections : kept(x) # {}} |-> kept(s)]]

\* cleanupDeadConnections(): the destroyed and finished responses leave their sets,
\* and a set left empty leaves the registry
cleanupDeadConnections(W) ==
    [W EXCEPT !.connections =
        [s \in {x \in DOMAIN W.connections : LiveOf(W, x) # {}} |-> LiveOf(W, s)]]

RECURSIVE closeAll(_, _, _)
\* shutdown(), the loop: closeSessionConnections for every job of the registry
closeAll(W, ss, endThrows) ==
    IF ss = {} THEN W
    ELSE LET sessionId == CHOOSE x \in ss : TRUE
         IN  closeAll(closeSessionConnections(W, sessionId, endThrows), ss \ {sessionId},
                      endThrows)

\* shutdown()
shutdown(W, endThrows) == closeAll(W, DOMAIN W.connections, endThrows)

\* the heartbeat timer fires (while the responses have room for one more heartbeat)
Heartbeat ==
    /\ \A c \in StreamIds :
           Len(SelectSeq(recv[c], LAMBDA e : e.type = "heartbeat")) < MaxBeats
    /\ Commit(sendHeartbeat(World))
    /\ resp' = [op |-> "heartbeat"]
    /\ UNCHANGED <<runs, now, hasKey, ids, legacyIds>>

\* the connection cleanup timer fires
Sweep ==
    /\ Commit(cleanupDeadConnections(World))
    /\ resp' = [op |-> "sweep"]
    /\ UNCHANGED <<runs, now, hasKey, ids, legacyIds>>

\* gracefulShutdown: sseManager.shutdown()
Shutdown(endThrows) ==
    /\ Commit(shutdown(World, endThrows))
    /\ resp' = [op |-> "shutdown"]
    /\ UNCHANGED <<runs, now, hasKey, ids, legacyIds>>

\* GET /api/events/:sessionId with the fresh response object c
Attach(c, sessionId) ==
    /\ streams[c].state = "idle"
    /\ LET session == getSession(sessions, sessionId, now)
           W0 == [World EXCEPT !.sessions = getSessionStore(sessions, sessionId, now)]
       IN  IF session = NoSession
           THEN /\ Commit(W0)
                /\ resp' = [op |-> "events", sid |-> sessionId, status |-> 404,
                            code |-> "SESSION_NOT_FOUND"]
           ELSE /\ LET W1 == snapshot(createConnection(W0, sessionId, c), sessionId, session)
                   IN  Commit([W1 EXCEPT !.sessions = extendSession(W1.sessions, sessionId, now)])
                /\ resp' = NoResp
    /\ UNCHANGED <<runs, now, hasKey, ids, legacyIds>>

\* GET /api/events/:sessionId with a response object c whose writes throw
AttachUnwritable(c, sessionId) ==
    /\ streams[c].state = "idle"
    /\ LET session == getSession(sessions, sessionId, now)
           W0 == [World EXCEPT !.sessions = getSessionStore(sessions, sessionId, now),
                               !.streams[c].state = "broken"]
           connectionCreated == createConnectionOk(sessionId, c)
       IN  IF session = NoSession
           THEN /\ Commit([W0 EXCEPT !.streams = streams])
                /\ resp' = [op |-> "events", sid |-> sessionId, status |-> 404,
                            code |-> "SESSION_NOT_FOUND"]
           ELSE IF ~connectionCreated
           THEN /\ Commit([W0 EXCEPT !.streams = streams])
                /\ resp' = [op |-> "events", sid |-> sessionId, created |-> FALSE]
           ELSE /\ LET W1 == snapshot(createConnection(W0, sessionId, c), sessionId, session)
                   IN  Commit([W1 EXCEPT !.sessions = extendSession(W1.sessions, sessionId, now)])
                /\ resp' = [op |-> "events", sid |-> sessionId, created |-> TRUE]
    /\ UNCHANGED <<runs, now, hasKey, ids, legacyIds>>

\* the client goes away: the response is destroyed, its 'close' event is still to come
ClientClose(c) ==
    /\ streams[c].state = "open"
    /\ Commit([World EXCEPT !.streams[c].state = "destroyed"])
    /\ resp' = NoResp
    /\ UNCHANGED <<runs, now, hasKey, ids, legacyIds>>

\* the response starts to fail: from now on res.write throws, while the response is
\* neither destroyed nor finished
WriteBreaks(c) ==
    /\ streams[c].state = "open"
    /\ Commit([World EXCEPT !.streams[c].state = "broken"])
    /\ resp' = NoResp
    /\ UNCHANGED <<runs, now, hasKey, ids, legacyIds>>

\* res.on('error'): removeConnection(sessionId, res); the response is destroyed
ErrorEvent(c) ==
    /\ streams[c].state = "broken"
    /\ Commit([World EXCEPT !.streams[c].state = "closed",
                            !.connections = removeConnection(connections, streams[c].sid, c)])
    /\ resp' = NoResp
    /\ UNCHANGED <<runs, now, hasKey, ids, legacyIds>>

\* res.on('close'): removeConnection(sessionId, res)
CloseEvent(c) ==
    /\ streams[c].state \in {"destroyed", "finished"}
    /\ Commit([World EXCEPT !.streams[c].state = "closed",
                            !.connections = removeConnection(connections, streams[c].sid, c)])
    /\ resp' = NoResp
    /\ UNCHANGED <<runs, now, hasKey, ids, legacyIds>>

----------------------------------------------------------------------------
(* The clock *)

Tick ==
    /\ now < MaxTime
    /\ now' = now + 1
    /\ Commit(World)
    /\ resp' = NoResp
    /\ UNCHANGED <<runs, hasKey, ids, legacyIds>>

----------------------------------------------------------------------------
(* The session store, called directly *)

\* the update objects callers pass: a status with an error message, and an object
\* that names sessionId and updatedAt themselves
Partials ==
    { [status |-> "error", lastError |-> "failed"],
      [sessionId |-> "S2", updatedAt |-> -1, status |-> "completed"] }

\* a step in which only the store changes, to `m`, answering `answer`
StoreStep(m, answer) ==
    /\ sessions' = m
    /\ resp' = answer
    /\ UNCHANGED <<connections, streams, recv, seq, out, edges, runs, now, hasKey, ids,
                   legacyIds>>

\* sessionManager.createSession({ sessionId, status: 'uploaded' })
StoreCreate(sessionId) ==
    /\ sessionId \notin DOMAIN sessions
    /\ StoreStep(createSession(sessions, [sessionId |-> sessionId, status |-> "uploaded"], now),
                 [op |-> "create", sid |-> sessionId])

\* sessionManager.getSession(sessionId)
StoreGet(sessionId) ==
    StoreStep(getSessionStore(sessions, sessionId, now),
              [op |-> "get", sid |-> sessionId,
               session |-> getSession(sessions, sessionId, now)])

\* sessionManager.updateSession(sessionId, updateData)
StoreUpdate(sessionId, updateData) ==
    StoreStep(updateSession(sessions, sessionId, updateData, now),
              [op |-> "update", sid |-> sessionId, given |-> updateData,
               updated |-> updateSessionOk(sessions, sessionId, now)])

\* sessionManager.sessionExists(sessionId): an expired session is deleted
StoreExists(sessionId) ==
    StoreStep(getSessionStore(sessions, sessionId, now),
              [op |-> "exists", sid |-> sessionId,
               exists |-> sessionExists(sessions, sessionId, now)])

\* sessionManager.getActiveSessions() and getSessionCount()
StoreList ==
    StoreStep(sessions,
              [op |-> "list", sid |-> Null, active |-> getActiveSessions(sessions, now),
               count |-> getSessionCount(sessions, now)])

\* sessionManager.extendSession(sessionId), while the new expiry stays within the
\* times the model looks at
StoreExtend(sessionId) ==
    /\ sessionId \in DOMAIN sessions => sessions[sessionId].expiresAt < MaxTime
    /\ StoreStep(extendSession(sessions, sessionId, now), [op |-> "extend", sid |-> sessionId])

\* the cleanup timer: cleanupExpiredSessions(), answering its cleanedCount
StoreCleanup ==
    StoreStep(cleanupExpiredSessions(sessions, now),
              [op |-> "cleanup", sid |-> Null, cleanedCount |-> cleanedCount(sessions, now)])

----------------------------------------------------------------------------
(* Specifications *)

InitCommon ==
    /\ sessions = EmptyMap
    /\ connections = EmptyMap
    /\ streams = [c \in StreamIds |-> [sid |-> Null, state |-> "idle", since |-> 0]]
    /\ recv = [c \in StreamIds |-> <<>>]
    /\ seq = [s \in SessionIds |-> 0]
    /\ out = <<>>
    /\ edges = [s \in SessionIds |-> {}]
    /\ runs = <<>>
    /\ resp = NoResp
    /\ now = 0
    /\ hasKey \in BOOLEAN

\* the orchestrators and the retry endpoints, on one job
Init ==
    /\ InitCommon
    /\ \/ ids = {"S1"} /\ legacyIds = {}
       \/ ids = {} /\ legacyIds = {"S1"}

\* the requests clients make for the job identifiers in S
Requests(S) ==
    \/ \E s \in S, thrown \in BOOLEAN : Upload(s, thrown)
    \/ \E s \in S : UploadLegacy(s)
    \/ \E s \in S : Process(s)
    \/ \E s \in S : ProcessRetry(s)
    \/ \E s \in S : SseRetry(s)

Workflow ==
    \/ \E r \in DOMAIN runs, outcome \in {"ok", "fail", "throw"} : ExtractReturn(r, outcome)
    \/ \E r \in DOMAIN runs : BackoffElapsed(r)
    \/ \E r \in DOMAIN runs : Chunk(r)
    \/ \E r \in DOMAIN runs, response \in Responses : AnalyzeSuccess(r, response)
    \/ \E r \in DOMAIN runs, error \in ProviderErrors, reinitSuccess \in BOOLEAN :
           AnalyzeFailure(r, error, reinitSuccess)

Subscribers ==
    \/ \E c \in StreamIds, s \in SessionIds : Attach(c, s)
    \/ \E c \in StreamIds : ClientClose(c)
    \/ \E c \in StreamIds : CloseEvent(c)
    \/ \E c \in StreamIds : WriteBreaks(c)
    \/ \E c \in StreamIds : ErrorEvent(c)

Next == Requests({"S1"}) \/ Workflow

Spec == Init /\ [][Next]_vars

\* one upload, its workflow with every outcome of the collaborators, one
\* subscriber, and the SSE retry endpoint
InitRun ==
    /\ InitCommon
    /\ ids = {"S1"}
    /\ legacyIds = {}

NextRun ==
    \/ \E thrown \in BOOLEAN : Upload("S1", thrown)
    \/ Workflow
    \/ SseRetry("S1")
    \/ Attach("c1", "S1")
    \/ ClientClose("c1")
    \/ CloseEvent("c1")

SpecRun == InitRun /\ [][NextRun]_vars

\* the registry with its subscribers, fed by the workflow of one job
InitSub ==
    /\ InitCommon
    /\ ids = {"S1"}
    /\ legacyIds = {"S2"}

\* a workflow whose analysis is attempted once: the provider succeeds or fails
\* with an error that is not retried
WorkflowOnce ==
    \/ \E r \in DOMAIN runs, outcome \in {"ok", "fail", "throw"} : ExtractReturn(r, outcome)
    \/ \E r \in DOMAIN runs : Chunk(r)
    \/ \E r \in DOMAIN runs, response \in Responses : AnalyzeSuccess(r, response)
    \/ \E r \in DOMAIN runs : AnalyzeFailure(r, [status |-> 401, keyText |-> FALSE], FALSE)

NextSub ==
    \/ \E s \in SessionIds : Upload(s, FALSE)
    \/ \E s \in SessionIds : UploadLegacy(s)
    \/ WorkflowOnce
    \/ Subscribers

SpecSub == InitSub /\ [][NextSub]_vars

\* the registry with its subscribers and the endpoint that closes a job's
\* connections, beside the workflow of one job
InitClose ==
    /\ InitCommon
    /\ hasKey
    /\ ids = {"S1"}
    /\ legacyIds = {"S2"}

NextClose ==
    \/ Upload("S1", FALSE)
    \/ UploadLegacy("S2")
    \/ \E r \in DOMAIN runs, outcome \in {"ok", "fail"} : ExtractReturn(r, outcome)
    \/ \E r \in DOMAIN runs : AnalyzeSuccess(r, <<"{", "J", "}">>)
    \/ \E c \in StreamIds, s \in SessionIds : Attach(c, s)
    \/ \E c \in StreamIds : CloseEvent(c)
    \/ \E c \in StreamIds : WriteBreaks(c)
    \/ \E s \in SessionIds, endThrows \in BOOLEAN : CloseConnections(s, endThrows)

SpecClose == InitClose /\ [][NextClose]_vars

\* the registry under every operation it has: attachment, the callbacks of the
\* responses, fan-out from the workflow of one job, the heartbeat and cleanup
\* timers, and the endpoint that closes a job's connections
InitReg ==
    /\ InitCommon
    /\ hasKey
    /\ ids = {"S1"}
    /\ legacyIds = {"S2"}

NextReg ==
    \/ Upload("S1", FALSE)
    \/ UploadLegacy("S2")
    \/ \E r \in DOMAIN runs, outcome \in {"ok", "fail"} : ExtractReturn(r, outcome)
    \/ \E r \in DOMAIN runs : AnalyzeSuccess(r, <<"{", "J", "}">>)
    \/ \E c \in StreamIds, s \in SessionIds : Attach(c, s)
    \/ \E c \in StreamIds : ClientClose(c)
    \/ \E c \in StreamIds : CloseEvent(c)
    \/ \E s \in SessionIds, endThrows \in BOOLEAN : CloseConnections(s, endThrows)
    \/ Heartbeat
    \/ Sweep

SpecReg == InitReg /\ [][NextReg]_vars

\* the registry of one job with the two timers: responses that are closed by their
\* clients or whose writes begin to throw, the events of the job's extraction, and
\* the cleanup timer firing again and again (setInterval)
NextSweep ==
    \/ Upload("S1", FALSE)
    \/ \E r \in DOMAIN runs, outcome \in {"ok", "fail"} : ExtractReturn(r, outcome)
    \/ \E c \in StreamIds : Attach(c, "S1")
    \/ \E c \in StreamIds : ClientClose(c)
    \/ \E c \in StreamIds : WriteBreaks(c)
    \/ \E c \in StreamIds : CloseEvent(c)
    \/ Heartbeat
    \/ Sweep

SpecSweep == InitReg /\ [][NextSweep]_vars /\ WF_vars(Sweep)

\* the registry with responses whose writes throw, and the shutdown
NextShut ==
    \/ Upload("S1", FALSE)
    \/ UploadLegacy("S2")
    \/ \E r \in DOMAIN runs, outcome \in {"ok", "fail"} : ExtractReturn(r, outcome)
    \/ \E c \in StreamIds, s \in SessionIds : Attach(c, s)
    \/ \E c \in StreamIds, s \in SessionIds : AttachUnwritable(c, s)
    \/ \E c \in StreamIds : ClientClose(c)
    \/ \E c \in StreamIds : WriteBreaks(c)
    \/ \E c \in StreamIds : CloseEvent(c)
    \/ \E c \in StreamIds : ErrorEvent(c)
    \/ \E s \in SessionIds, endThrows \in BOOLEAN : CloseConnections(s, endThrows)
    \/ Heartbeat
    \/ Sweep
    \/ \E endThrows \in BOOLEAN : Shutdown(endThrows)

SpecShut == InitReg /\ [][NextShut]_vars

\* one upload and its workflow while the clock advances: the session expires, the
\* cleanup timer or a reader removes it, and a subscriber is attached
NextExpire ==
    \/ Upload("S1", FALSE)
    \/ \E r \in DOMAIN runs, outcome \in {"ok", "fail"} : ExtractReturn(r, outcome)
    \/ \E r \in DOMAIN runs : BackoffElapsed(r)
    \/ \E r \in DOMAIN runs : AnalyzeSuccess(r, <<"{", "J", "}">>)
    \/ \E r \in DOMAIN runs, error \in {[status |-> 401, keyText |-> FALSE],
                                        [status |-> 503, keyText |-> FALSE]} :
           AnalyzeFailure(r, error, FALSE)
    \/ Attach("c1", "S1")
    \/ StoreGet("S1")
    \/ StoreCleanup
    \/ Tick

InitExpire == InitRun /\ hasKey

SpecExpire == InitExpire /\ [][NextExpire]_vars

\* one invocation of each orchestrator, on a job of its own, with every outcome of
\* the collaborators
InitOrch ==
    /\ InitCommon
    /\ ids = {"S1"}
    /\ legacyIds = {"S2"}

NextOrch ==
    \/ Upload("S1", FALSE)
    \/ UploadLegacy("S2")
    \/ Process("S2") /\ \A r \in DOMAIN runs : runs[r].kind # "process"
    \/ Workflow

SpecOrch == InitOrch /\ [][NextOrch]_vars

\* the session store under direct calls, with the clock
InitStore ==
    /\ InitCommon
    /\ hasKey
    /\ ids = {}
    /\ legacyIds = {}

NextStore ==
    \/ \E s \in SessionIds : StoreCreate(s)
    \/ \E s \in SessionIds : StoreGet(s)
    \/ \E s \in SessionIds, updateData \in Partials : StoreUpdate(s, updateData)
    \/ \E s \in SessionIds : StoreExists(s)
    \/ StoreList
    \/ \E s \in SessionIds : StoreExtend(s)
    \/ StoreCleanup
    \/ Tick

SpecStore == InitStore /\ [][NextStore]_vars

\* the writers of the store, the reader that evicts, the clock, and the cleanup
\* timer firing again and again (setInterval)
NextStoreFair ==
    \/ \E s \in SessionIds : StoreCreate(s)
    \/ \E s \in SessionIds : StoreGet(s)
    \/ \E s \in SessionIds, updateData \in Partials : StoreUpdate(s, updateData)
    \/ \E s \in SessionIds : StoreExtend(s)
    \/ StoreCleanup
    \/ Tick

SpecStoreFair == InitStore /\ [][NextStoreFair]_vars /\ WF_vars(StoreCleanup)

----------------------------------------------------------------------------
(* Properties *)

Max(a, b) == IF a >= b THEN a ELSE b

Min(a, b) == IF a <= b THEN a ELSE b

\* the stored session of job s, for formulas that have checked s \in DOMAIN sessions
Stored(s) == sessions[s]

\* the status graph of the design: created -> uploaded -> extracting -> {extracted, error},
\* extracted -> analyzing -> {completed, retrying, error}, retrying -> analyzing, and the
\* external reset error -> retrying
StatusGraph ==
    { <<"created", "uploaded">>, <<"uploaded", "extracting">>, <<"extracting", "extracted">>,
      <<"extracting", "error">>, <<"extracted", "analyzing">>, <<"analyzing", "completed">>,
      <<"analyzing", "retrying">>, <<"analyzing", "error">>, <<"retrying", "analyzing">>,
      <<"error", "retrying">> }

\* C1: every change of a session's status is an edge of the status graph; in
\* particular no change created -> completed, retrying -> completed or retrying -> error.
C1_StatusFollowsGraph == \A s \in SessionIds : edges[s] \subseteq StatusGraph

\* C1 witness of the divergence: a session went from retrying to completed with no
\* analyzing in between (second attempt of the upload orchestrator succeeded).
C1_Witness ==
    \E s \in DOMAIN sessions :
        /\ <<"retrying", "completed">> \in edges[s]
        /\ sessions[s].status = "completed"
        /\ Len(runs) = 1 /\ runs[1].kind = "upload"

\* C2: every stored session has retryCount <= maxRetries.
C2_RetryCountBounded == \A s \in DOMAIN sessions : sessions[s].retryCount <= maxRetries

\* C2 witness of the divergence: the upload orchestrator alone, with no manual
\* retry, leaves retryCount = maxRetries + 1 when its last attempt fails.
C2_Witness ==
    \E s \in DOMAIN sessions :
        /\ sessions[s].retryCount = maxRetries + 1
        /\ sessions[s].status = "error"
        /\ Len(runs) = 1 /\ runs[1].kind = "upload" /\ runs[1].n = maxRetries

\* the workflow invocation r is the only one there has been, it is the upload
\* orchestrator's, and its analysis succeeded after k failed attempts
SucceededAfter(r, k) ==
    /\ Len(runs) = 1
    /\ runs[r].kind = "upload"
    /\ runs[r].result = "completed"
    /\ runs[r].n = k

\* response c is registered for job s, live, and was written the job's
\* extraction.completed: it has been attached since before the analysis started
Watching(c, s) ==
    /\ streams[c].sid = s
    /\ streams[c].state = "open"
    /\ s \in DOMAIN connections
    /\ c \in connections[s]
    /\ \E i \in DOMAIN recv[c] : recv[c][i].type = "extraction.completed"

\* C3: when extraction succeeds and the analysis fails k times (1 <= k <= 3) and then
\* succeeds, with no other request for the job, the session is completed with
\* retryCount = k, and the start events emitted, and written to every subscriber
\* attached since before the analysis, are analysis.started followed by
\* retry.started 1, ..., k.
C3_RetriesThenSuccess ==
    \A r \in DOMAIN runs, k \in 1..maxRetries :
        SucceededAfter(r, k) =>
            /\ runs[r].sid \in DOMAIN sessions
            /\ Stored(runs[r].sid).status = "completed"
            /\ Stored(runs[r].sid).retryCount = k
            /\ runs[r].starts = [i \in 1..(k + 1) |-> i - 1]
            /\ \A c \in StreamIds :
                   Watching(c, runs[r].sid) =>
                       StartsOf(recv[c]) = [i \in 1..(k + 1) |-> i - 1]

\* C3 witness: the scenario with two failures has happened in front of a subscriber.
C3_Witness ==
    \E r \in DOMAIN runs, c \in StreamIds :
        /\ SucceededAfter(r, 2)
        /\ Stored(runs[r].sid).retryCount = 2
        /\ runs[r].starts = <<0, 1, 2>>
        /\ Watching(c, runs[r].sid)
        /\ StartsOf(recv[c]) = <<0, 1, 2>>

Unauthorized401 == [status |-> 401, keyText |-> FALSE]

\* C4: when the first analysis attempt of the upload orchestrator fails as
\* unauthorized, that step stores status error with retryCount 0, emits no
\* retry.started, starts no backoff, and emits one error event with retryable false.
C4_UnauthorizedFirstAttempt ==
    [][\A r \in DOMAIN runs :
          ( /\ runs[r].kind = "upload"
            /\ runs[r].n = 0
            /\ Len(runs) = 1
            /\ AnalyzeFailure(r, Unauthorized401, FALSE) )
          => /\ runs'[r].pc = "done"
             /\ runs'[r].sleeps = 0
             /\ Len(out') = 1 /\ out'[1].type = "error" /\ out'[1].details.retryable = FALSE
             /\ sessions'[runs[r].sid].status = "error"
             /\ sessions'[runs[r].sid].retryCount = 0]_vars

\* C4 witness of the divergence: the first attempt failed, nothing was retried,
\* the error event says retryable false, and the stored retryCount is 1.
C4_Witness ==
    /\ Len(runs) = 1 /\ runs[1].kind = "upload"
    /\ runs[1].result = "analysis-error" /\ runs[1].n = 0 /\ runs[1].sleeps = 0
    /\ runs[1].starts = <<0>>
    /\ Len(out) = 1 /\ out[1].type = "error" /\ out[1].details.retryable = FALSE
    /\ sessions[runs[1].sid].status = "error"
    /\ sessions[runs[1].sid].retryCount = 1

\* C5: when an analysis attempt fails at attempt index maxRetries, that step stores
\* status error and emits one error event with retryable false and the final attempt
\* count, whatever the class of the failure.
C5_ExhaustedNotRetryable ==
    [][\A r \in DOMAIN runs :
          ( /\ runs[r].n = maxRetries
            /\ \E error \in ProviderErrors, reinitSuccess \in BOOLEAN :
                   AnalyzeFailure(r, error, reinitSuccess) )
          => /\ runs'[r].pc = "done"
             /\ Len(out') = 1 /\ out'[1].type = "error"
             /\ out'[1].details.retryable = FALSE
             /\ out'[1].details.retryCount = maxRetries + 1
             /\ sessions'[runs[r].sid].status = "error"]_vars

\* C5 witness of the divergence: the upload orchestrator's attempt maxRetries has
\* just failed and the error event it emitted says retryable true.
C5_Witness ==
    /\ Len(runs) = 1 /\ runs[1].kind = "upload"
    /\ runs[1].result = "analysis-error" /\ runs[1].n = maxRetries
    /\ Len(out) = 1 /\ out[1].type = "error" /\ out[1].details.retryable = TRUE
    /\ sessions[runs[1].sid].status = "error"

\* C6: an analysis failure classified non-retryable stores status error in that
\* step and ends the invocation: no further analysis call is made.
C6_NonRetryableStops ==
    [][\A r \in DOMAIN runs :
          ( \E error \in ProviderErrors, reinitSuccess \in BOOLEAN :
                /\ ~isRetryableError(ThrownMessage(error))
                /\ AnalyzeFailure(r, error, reinitSuccess) )
          => /\ runs'[r].pc = "done"
             /\ sessions'[runs[r].sid].status = "error"]_vars

\* a manual retry request for job s, on either endpoint
ManualRetry(s) == SseRetry(s) \/ ProcessRetry(s)

\* C7: a manual retry request for a stored session whose status is not error is
\* rejected: the session is unchanged, no event is emitted and no workflow starts.
C7_RetryNeedsErrorState ==
    [][\A s \in DOMAIN sessions :
          (sessions[s].status # "error" /\ ManualRetry(s))
          => /\ resp'.status # 200
             /\ sessions' = sessions
             /\ out' = <<>>
             /\ runs' = runs]_vars

\* C7 witness of the divergence: a completed session was put into retrying.
C7_Witness ==
    \E s \in DOMAIN sessions :
        /\ <<"completed", "retrying">> \in edges[s]
        /\ resp.op = "process-retry" /\ resp.status = 200 /\ resp.sid = s

\* C8: a manual retry request for a session in status error is rejected with
\* MAX_RETRIES_EXCEEDED and changes nothing when retryCount is maxRetries, and is
\* accepted and adds exactly 1 to retryCount when retryCount is below maxRetries.
C8_RetryLimit ==
    [][\A s \in DOMAIN sessions :
          (sessions[s].status = "error" /\ ManualRetry(s))
          => /\ sessions[s].retryCount = maxRetries
                  => /\ resp'.code = "MAX_RETRIES_EXCEEDED"
                     /\ sessions' = sessions
             /\ sessions[s].retryCount < maxRetries
                  => /\ resp'.status = 200
                     /\ sessions'[s].retryCount = sessions[s].retryCount + 1]_vars

\* C8 witness of the divergence: a retry request was accepted for a session in
\* status error whose retryCount was maxRetries.
C8_Witness ==
    \E s \in DOMAIN sessions :
        /\ <<"error", "retrying">> \in edges[s]
        /\ resp.op = "process-retry" /\ resp.status = 200 /\ resp.sid = s
        /\ resp.retryCount = maxRetries + 1
        /\ sessions[s].retryCount = maxRetries + 1

\* C9: an accepted manual retry resets the error state and re-enters the workflow
\* at the analysis stage: the step leaves lastError null and a new invocation for
\* the job that is in its analysis stage (calling the provider or in its backoff).
C9_RetryReentersAnalysis ==
    [][\A s \in DOMAIN sessions :
          (ManualRetry(s) /\ resp'.status = 200)
          => /\ sessions'[s].lastError = Null
             /\ \E r \in DOMAIN runs' :
                    /\ r \notin DOMAIN runs
                    /\ runs'[r].sid = s
                    /\ runs'[r].pc \in {"analyze", "backoff"}]_vars

\* C9 witness of the divergence: a manual retry was accepted and the session is
\* retrying, but no workflow invocation is running for it.
C9_Witness ==
    \E s \in DOMAIN sessions :
        /\ resp.op = "sse-retry" /\ resp.status = 200 /\ resp.sid = s
        /\ sessions[s].status = "retrying" /\ sessions[s].lastError = Null
        /\ \A r \in DOMAIN runs : runs[r].pc = "done"

\* the events written to response c that are numbered above n, in the order written
After(c, n) == SelectSeq(recv[c], LAMBDA x : x.seq > n)

\* the numbers of a sequence of written events
Numbers(es) == [i \in 1..Len(es) |-> es[i].seq]

\* c and d are two registered, live responses of the same job
BothAttached(c, d) ==
    /\ c # d
    /\ streams[c].state = "open" /\ streams[d].state = "open"
    /\ streams[c].sid = streams[d].sid
    /\ streams[c].sid \in DOMAIN connections
    /\ {c, d} \subseteq connections[streams[c].sid]

\* C10: while two subscribers are attached to the same job, each has been written
\* every event fanned out for the job since both were attached, in fan-out order.
C10_BothReceiveAllInOrder ==
    \A c, d \in StreamIds :
        BothAttached(c, d) =>
            LET from == Max(streams[c].since, streams[d].since)
                all == [i \in 1..(seq[streams[c].sid] - from) |-> from + i]
            IN  /\ Numbers(After(c, from)) = all
                /\ After(d, from) = After(c, from)

\* C10 witness: two attached subscribers have both been written at least three
\* events fanned out after the second of them attached.
C10_Witness ==
    \E c, d \in StreamIds :
        /\ BothAttached(c, d)
        /\ streams[c].since < streams[d].since
        /\ seq[streams[c].sid] >= streams[d].since + 3
        /\ Len(After(c, streams[d].since)) >= 3
        /\ After(c, streams[d].since) = After(d, streams[d].since)

\* the stored session s has an expiresAt that is earlier than the clock
Lapsed(s) == s \in DOMAIN sessions /\ sessions[s].expiresAt < now

\* C17: for a stored session whose expiresAt is earlier than now, whether or not a
\* sweep has run, getSession returns null, sessionExists returns false, and
\* getActiveSessions and getSessionCount leave it out.
C17_LapsedUnreadable ==
    [][\A s \in SessionIds :
          Lapsed(s) =>
              /\ StoreGet(s) => resp'.session = NoSession
              /\ StoreExists(s) => resp'.exists = FALSE
              /\ StoreList =>
                     /\ sessions[s] \notin resp'.active
                     /\ resp'.count = Cardinality(resp'.active)
                     /\ resp'.count <= Cardinality({x \in DOMAIN sessions : ~Lapsed(x)})]_vars

\* C17 witness: a listing has just left out a lapsed session that is still stored
\* and has included another one.
C17_Witness ==
    /\ resp.op = "list"
    /\ resp.count = 1
    /\ \E s \in SessionIds : Lapsed(s) /\ sessions[s] \notin resp.active

\* C18: getSession and updateSession on a lapsed session both report it absent
\* and evict it: afterwards it is not in the store.
C18_LapsedEvicted ==
    [][\A s \in SessionIds :
          Lapsed(s) =>
              /\ StoreGet(s) => resp'.session = NoSession /\ s \notin DOMAIN sessions'
              /\ \A updateData \in Partials :
                     StoreUpdate(s, updateData) =>
                         resp'.updated = FALSE /\ s \notin DOMAIN sessions']_vars

\* C18 witness of the divergence: updateSession has just refused a lapsed session,
\* which is still in the store, unchanged.
C18_Witness ==
    /\ resp.op = "update"
    /\ resp.updated = FALSE
    /\ Lapsed(resp.sid)
    /\ sessions[resp.sid].status = "uploaded"

\* C19: a successful updateSession(s, updateData) keeps the session under key s with
\* sessionId s, sets updatedAt to the time of the call, gives the fields named in
\* updateData (other than those two) their new values, and keeps every other field
\* and every other session as it was.
C19_UpdateKeepsIdentity ==
    [][\A s \in SessionIds, updateData \in Partials :
          (StoreUpdate(s, updateData) /\ resp'.updated)
          => /\ DOMAIN sessions' = DOMAIN sessions
             /\ sessions'[s].sessionId = s
             /\ sessions'[s].updatedAt = now
             /\ \A f \in DOMAIN updateData \ {"sessionId", "updatedAt"} :
                    sessions'[s][f] = updateData[f]
             /\ \A f \in DOMAIN sessions[s] \ (DOMAIN updateData \cup {"updatedAt"}) :
                    sessions'[s][f] = sessions[s][f]
             /\ \A x \in DOMAIN sessions \ {s} : sessions'[x] = sessions[x]]_vars

\* C19 witness: an update naming another sessionId and an updatedAt has succeeded
\* at a later time than the session was created.
C19_Witness ==
    /\ resp.op = "update"
    /\ resp.updated
    /\ {"sessionId", "updatedAt"} \subseteq DOMAIN resp.given
    /\ resp.given.sessionId # resp.sid
    /\ sessions[resp.sid].sessionId = resp.sid
    /\ sessions[resp.sid].status = "completed"
    /\ sessions[resp.sid].updatedAt = now
    /\ sessions[resp.sid].createdAt < now

\* C20: no delay is slept before attempt 0; the delay slept before attempt n
\* (1 <= n <= 3) is min(1000 * 2^(n-1), 10000) ms, that is 1000, 2000, 4000; and
\* the call of attempt n comes after exactly n sleeps.
C20_BackoffDelays ==
    [][\A r \in DOMAIN runs :
          /\ (runs[r].pc = "extract" /\ runs'[r].pc = "analyze")
                 => runs'[r].n = 0 /\ runs'[r].sleeps = 0 /\ runs'[r].delay = 0
          /\ (runs[r].pc = "analyze" /\ runs'[r].pc = "backoff")
                 => LET n == runs'[r].n
                    IN  /\ n = runs[r].n + 1
                        /\ n \in 1..3
                        /\ runs'[r].delay = Min(1000 * 2 ^ (n - 1), 10000)
                        /\ runs'[r].delay = <<1000, 2000, 4000>>[n]
                        /\ runs'[r].sleeps = n
          /\ (runs[r].pc = "backoff" /\ runs'[r].pc = "analyze")
                 => runs'[r].sleeps = runs[r].n /\ runs'[r].calls = runs[r].n + 1]_vars

\* C20 witness: both orchestrators are sleeping before an attempt, one 4000 ms
\* before attempt 3, the other 2000 ms before attempt 2.
C20_Witness ==
    \E r, q \in DOMAIN runs :
        /\ runs[r].kind = "process" /\ runs[r].pc = "backoff"
        /\ runs[r].n = 3 /\ runs[r].delay = 4000 /\ runs[r].sleeps = 3
        /\ runs[q].kind = "upload" /\ runs[q].pc = "backoff"
        /\ runs[q].n = 2 /\ runs[q].delay = 2000

\* response c is registered for job s
Registered(c, s) == s \in DOMAIN connections /\ c \in connections[s]

\* response c was attached to job s and has detached: it is closed and removed
Detached(c, s) == streams[c].sid = s /\ streams[c].state = "closed" /\ ~Registered(c, s)

\* the world W with response c open and registered for its job, as if it had stayed
Stayed(W, c) ==
    LET s == W.streams[c].sid
    IN  [W EXCEPT !.streams[c].state = "open",
                  !.connections = MapSet(W.connections, s,
                                         (IF s \in DOMAIN W.connections
                                          THEN W.connections[s] ELSE {}) \cup {c})]

\* what a world says about the jobs themselves
JobsOf(W) == <<W.sessions, W.edges>>

\* the entries written to response d in the step taken
NewlyWritten(d) == SubSeq(recv'[d], Len(recv[d]) + 1, Len(recv'[d]))

\* every continuation of invocation `run`, under every outcome of the collaborator
\* it waits for, leaves the sessions and their status changes the same from the
\* world A as from the world B
JobsAgree(run, A, B) ==
    /\ run.pc = "extract" =>
           \A outcome \in {"ok", "fail", "throw"} :
               JobsOf(afterExtract(A, run, outcome, now))
                   = JobsOf(afterExtract(B, run, outcome, now))
    /\ run.pc = "analyze" =>
           /\ JobsOf(afterChunk(A, run)) = JobsOf(afterChunk(B, run))
           /\ \A response \in Responses :
                  JobsOf(afterSuccess(A, run, response, now))
                      = JobsOf(afterSuccess(B, run, response, now))
           /\ \A error \in ProviderErrors, reinitSuccess \in BOOLEAN :
                  JobsOf(afterFailure(A, run, error, reinitSuccess, now))
                      = JobsOf(afterFailure(B, run, error, reinitSuccess, now))

\* C11: a response that has closed is written nothing more; the step that removes
\* it leaves the job's other responses registered and the sessions untouched; and
\* once it is detached, every event fanned out for the job is still written to each
\* open registered response, and every continuation of the job's workflow leaves
\* the sessions and their status changes as it would if the response had stayed.
C11_DetachIsolated ==
    /\ [](\A c \in StreamIds, s \in SessionIds :
              Detached(c, s) =>
                  \A r \in DOMAIN runs :
                      runs[r].sid = s => JobsAgree(runs[r], World, Stayed(World, c)))
    /\ [][\A c \in StreamIds :
              /\ isDead(streams[c].state) => recv'[c] = recv[c]
              /\ (streams[c].state # "idle" /\ streams'[c].state # streams[c].state)
                     => /\ sessions' = sessions /\ edges' = edges /\ runs' = runs
                        /\ \A d \in StreamIds \ {c}, s \in SessionIds :
                               Registered(d, s) => Registered(d, s)'
              /\ \A s \in SessionIds :
                     Detached(c, s) =>
                         \A d \in StreamIds :
                             (Registered(d, s) /\ streams[d].state = "open"
                                 /\ streams'[d].state = "open")
                             => /\ SubSeq(recv'[d], 1, Len(recv[d])) = recv[d]
                                /\ Numbers(NewlyWritten(d)) =
                                       [i \in 1..(seq'[s] - seq[s]) |-> seq[s] + i]]_vars

\* C11 witness: one response of a job has detached, the other has since been
\* written two more events than it, and the job has completed.
C11_Witness ==
    \E c, d \in StreamIds, s \in SessionIds :
        /\ Detached(c, s)
        /\ Registered(d, s) /\ streams[d].state = "open"
        /\ s \in DOMAIN sessions /\ sessions[s].status = "completed"
        /\ Len(recv[c]) >= 2
        /\ recv[d][Len(recv[d])].seq >= recv[c][Len(recv[c])].seq + 2
        /\ recv[d][Len(recv[d])].type = "analysis.completed"

\* the type of the snapshot the attach route sends for a session
SnapshotType(session) ==
    IF session.status = "completed" /\ session.feedback # Null
    THEN "analysis.completed" ELSE "session.status"

\* the step taken attaches response c to job s
Attaches(c, s) ==
    /\ Attach(c, s)
    /\ streams[c].state = "idle"
    /\ streams'[c].state = "open"

\* C12: a response that attaches is written the connected acknowledgment and then
\* its snapshot (analysis.completed for a completed session with a result,
\* session.status otherwise), and these are the only acknowledgment and snapshot
\* it is ever written: the attachment of another response writes nothing to it, and
\* no other step writes it a connected or session.status entry.
C12_ConnectedThenOneSnapshot ==
    [][\A c \in StreamIds :
          /\ \A s \in SessionIds :
                 Attaches(c, s) =>
                     /\ Len(recv'[c]) = 2
                     /\ recv'[c][1].type = "connected"
                     /\ recv'[c][2].type = SnapshotType(sessions[s])
          /\ streams[c].state # "idle" =>
                 /\ \A i \in DOMAIN NewlyWritten(c) :
                        NewlyWritten(c)[i].type \notin {"connected", "session.status"}
                 /\ (\E d \in StreamIds \ {c}, s \in SessionIds : Attaches(d, s))
                        => recv'[c] = recv[c]]_vars

\* C12 witness of the divergence: an attached response has been written two
\* current-status snapshots.
C12_Witness ==
    \E c \in StreamIds :
        /\ streams[c].state = "open"
        /\ Len(SelectSeq(recv[c], LAMBDA e : e.type = "session.status")) = 2

\* C13: what a response has been written is the connected acknowledgment followed
\* only by events numbered above the count of events fanned out for its job before
\* it attached, in increasing order: nothing fanned out earlier, and nothing that
\* went to nobody, ever reaches it.
C13_NoReplay ==
    \A c \in StreamIds :
        streams[c].state # "idle" =>
            /\ Len(recv[c]) >= 1
            /\ recv[c][1] = Written([seq |-> 0, type |-> "connected"])
            /\ \A i \in 2..Len(recv[c]) :
                   /\ recv[c][i].seq > streams[c].since
                   /\ recv[c][i].seq <= seq[streams[c].sid]
                   /\ i > 2 => recv[c][i].seq > recv[c][i - 1].seq

\* C13 witness: a response attached after three events had been fanned out for its
\* job and has been written its snapshot and a later event.
C13_Witness ==
    \E c \in StreamIds :
        /\ streams[c].state = "open"
        /\ streams[c].since >= 3
        /\ Len(recv[c]) >= 3
        /\ recv[c][2].seq = streams[c].since + 1
        /\ recv[c][3].type # "session.status"

\* response c cannot be written to: its writes throw, or it is destroyed or finished
Failing(c) == streams[c].state = "broken" \/ isDead(streams[c].state)

\* C14: while a registered response of a job fails or is dead, every event fanned
\* out for the job is still written, once and in order, to each other open
\* response registered for the job.
C14_FailureIsolated ==
    [][\A s \in SessionIds, c \in StreamIds, d \in StreamIds :
          (c # d /\ Registered(c, s) /\ Failing(c)
              /\ Registered(d, s) /\ streams[d].state = "open")
          => /\ SubSeq(recv'[d], 1, Len(recv[d])) = recv[d]
             /\ Numbers(NewlyWritten(d)) = [i \in 1..(seq'[s] - seq[s]) |-> seq[s] + i]
             /\ Registered(d, s)']_vars

\* C14 witness: a response whose writes throw is still registered, and the job's
\* other response has been written two later events, up to the completed result.
C14_Witness ==
    \E s \in SessionIds, c \in StreamIds, d \in StreamIds :
        /\ c # d /\ Registered(c, s) /\ streams[c].state = "broken"
        /\ Registered(d, s) /\ streams[d].state = "open"
        /\ Len(recv[c]) >= 2
        /\ recv[d][Len(recv[d])].seq >= recv[c][Len(recv[c])].seq + 2
        /\ recv[d][Len(recv[d])].type = "analysis.completed"

\* C15: a response that cannot be written to when an event is fanned out for its
\* job is dead and out of the job's set of responses when that fan-out is over.
C15_FailedWriteRemoved ==
    [][\A s \in SessionIds, c \in StreamIds :
          (Registered(c, s) /\ Failing(c) /\ seq'[s] > seq[s])
          => ~Registered(c, s)']_vars

\* C15 witness: an event has been fanned out for a job since the writes to one of
\* its responses began to throw, and that response is still registered.
C15_Witness ==
    \E s \in SessionIds, c \in StreamIds :
        /\ Registered(c, s) /\ streams[c].state = "broken"
        /\ seq[s] > recv[c][Len(recv[c])].seq

\* the same as C15 for the responses that are destroyed or finished only
C15_DeadRemoved ==
    [][\A s \in SessionIds, c \in StreamIds :
          (Registered(c, s) /\ isDead(streams[c].state) /\ seq'[s] > seq[s])
          => ~Registered(c, s)']_vars

\* no response is registered for job s
Unwatched(s) == \A c \in StreamIds : ~Registered(c, s)

\* the world X leaves the registry and the responses as they are
Quiet(X) ==
    /\ X.recv = recv /\ X.connections = connections
    /\ X.streams = streams /\ X.seq = seq

\* X is a world a step leaves when no response is registered, Y what the same step
\* leaves when one is: nothing written or registered in X, an event handed over,
\* and the same sessions and status changes
AsWatched(X, Y) == Quiet(X) /\ X.out # <<>> /\ JobsOf(X) = JobsOf(Y)

\* every continuation of invocation `run`, under every outcome of the collaborator
\* it waits for, does from the current world what it does from the world Alt
ContinuesAs(run, Alt) ==
    /\ run.pc = "extract" =>
           \A outcome \in {"ok", "fail", "throw"} :
               AsWatched(afterExtract(World, run, outcome, now),
                         afterExtract(Alt, run, outcome, now))
    /\ run.pc = "analyze" =>
           /\ AsWatched(afterChunk(World, run), afterChunk(Alt, run))
           /\ \A response \in Responses :
                  AsWatched(afterSuccess(World, run, response, now),
                            afterSuccess(Alt, run, response, now))
           /\ \A error \in ProviderErrors, reinitSuccess \in BOOLEAN :
                  AsWatched(afterFailure(World, run, error, reinitSuccess, now),
                            afterFailure(Alt, run, error, reinitSuccess, now))

\* C16: a workflow step of a job without registered responses writes to no
\* response and leaves the registry as it was, and whatever the collaborator it
\* waits for returns, the step leaves the sessions and their status changes as it
\* does when a response is attached to the job.
C16_NoSubscriberNoOp ==
    /\ [](\A r \in DOMAIN runs :
              Unwatched(runs[r].sid) =>
                  \A c \in StreamIds :
                      ContinuesAs(runs[r], createConnection(World, runs[r].sid, c)))
    /\ [][\A r \in DOMAIN runs :
              (runs'[r] # runs[r] /\ Unwatched(runs[r].sid))
              => /\ recv' = recv
                 /\ connections' = connections
                 /\ streams' = streams
                 /\ seq' = seq]_vars

\* C16 witness: a job has completed after a retry without any response ever
\* attached to it.
C16_Witness ==
    /\ \A c \in StreamIds : streams[c].state = "idle"
    /\ \A s \in SessionIds : seq[s] = 0
    /\ \E r \in DOMAIN runs :
           /\ runs[r].pc = "done" /\ runs[r].result = "completed" /\ runs[r].n >= 1
           /\ runs[r].sid \in DOMAIN sessions
           /\ sessions[runs[r].sid].status = "completed"

\* the text holds a complete feedback object from its first "{" to its last "}"
WellFormed(response) ==
    \E i \in DOMAIN response, j \in DOMAIN response :
        /\ response[i] = "{" /\ \A k \in 1..(i - 1) : response[k] # "{"
        /\ response[j] = "}" /\ \A k \in (j + 1)..Len(response) : response[k] # "}"
        /\ i < j
        /\ SubSeq(response, i, j) = <<"{", "J", "}">>

\* the last event handed to the registry in the step taken
LastOut == out'[Len(out')]

\* C21: whatever text the provider's stream ends with, the attempt completes: the
\* feedback is the parsed object when the text is well formed and exactly the
\* fallback structure otherwise, it is what analysis.completed carries, and the
\* orchestrator that stores statuses stores completed with it.
C21_MalformedGivesFallback ==
    [][\A r \in DOMAIN runs, response \in Responses :
          AnalyzeSuccess(r, response) =>
              LET feedback == IF WellFormed(response) THEN "J" ELSE FallbackFeedback
              IN  /\ parseResponse(response) = feedback
                  /\ runs'[r].pc = "done" /\ runs'[r].result = "completed"
                  /\ Len(out') = 1
                  /\ LastOut.type = "analysis.completed" /\ LastOut.feedback = feedback
                  /\ runs[r].kind = "upload" =>
                         /\ sessions'[runs[r].sid].status = "completed"
                         /\ sessions'[runs[r].sid].feedback = feedback]_vars

\* C21 witness: a run has completed with the fallback structure stored and sent.
C21_Witness ==
    \E r \in DOMAIN runs :
        /\ runs[r].kind = "upload" /\ runs[r].result = "completed"
        /\ sessions[runs[r].sid].status = "completed"
        /\ sessions[runs[r].sid].feedback = FallbackFeedback
        /\ Len(out) = 1 /\ out[1].type = "analysis.completed"
        /\ out[1].feedback = FallbackFeedback

\* C22: closing the connections of job s writes session_closed to each open
\* response of the job and ends it, leaves no response registered for the job, and
\* leaves alone the sessions, their status changes, the workflow invocations, and
\* the responses and registrations of every other job.
C22_CloseLeavesJobAlone ==
    [][\A s \in SessionIds, endThrows \in BOOLEAN :
          CloseConnections(s, endThrows) =>
              /\ \A c \in StreamIds :
                     IF Registered(c, s)
                     THEN /\ ~Registered(c, s)'
                          /\ streams[c].state = "open" =>
                                 /\ streams'[c].state = "finished"
                                 /\ recv'[c] = Append(recv[c], SessionClosed)
                          /\ isDead(streams[c].state) =>
                                 /\ streams'[c] = streams[c] /\ recv'[c] = recv[c]
                     ELSE /\ streams'[c] = streams[c] /\ recv'[c] = recv[c]
              /\ Unwatched(s)'
              /\ \A s2 \in SessionIds \ {s}, c \in StreamIds :
                     Registered(c, s2) <=> Registered(c, s2)'
              /\ sessions' = sessions /\ edges' = edges /\ runs' = runs
              /\ seq' = seq /\ out' = <<>>]_vars

\* C22 witness: the connections of a job under analysis were closed while a
\* response of another job stayed open and registered; the closed response got
\* session_closed last, and the job has since completed.
C22_Witness ==
    \E c \in StreamIds, d \in StreamIds, s \in SessionIds, s2 \in SessionIds :
        /\ s # s2 /\ c # d
        /\ streams[c].sid = s /\ streams[c].state = "finished" /\ Unwatched(s)
        /\ recv[c][Len(recv[c])] = SessionClosed
        /\ recv[c][Len(recv[c]) - 1].type = "analysis.started"
        /\ Registered(d, s2) /\ streams[d].state = "open"
        /\ s \in DOMAIN sessions /\ sessions[s].status = "completed"

\* the ways a workflow invocation ends in failure
Failures == {"init-error", "extraction-error", "analysis-error", "workflow-error"}

\* the step taken ends workflow invocation r in failure
EndsInFailure(r) ==
    /\ r \in DOMAIN runs'
    /\ runs'[r].pc = "done" /\ runs'[r].result \in Failures
    /\ r \in DOMAIN runs => runs[r].pc # "done"

\* C23: the step that ends a workflow invocation in failure, whichever route
\* started it, leaves the session stored with status error and a lastError, and
\* hands one error event to the registry.
C23_FailureStoredAndBroadcast ==
    [][\A r \in 1..MaxRuns :
          EndsInFailure(r) =>
              /\ runs'[r].sid \in DOMAIN sessions'
              /\ sessions'[runs'[r].sid].status = "error"
              /\ sessions'[runs'[r].sid].lastError # Null
              /\ Len(SelectSeq(out', LAMBDA e : e.type = "error")) = 1]_vars

\* C23 witness of the divergence: an invocation started by POST /process/:sessionId
\* has failed at extraction and sent its error event, and the session is still
\* stored as uploaded, without lastError.
C23_Witness ==
    \E r \in DOMAIN runs :
        /\ runs[r].kind = "process" /\ runs[r].result = "extraction-error"
        /\ Len(out) = 1 /\ out[1].type = "error"
        /\ sessions[runs[r].sid].status = "uploaded"
        /\ sessions[runs[r].sid].lastError = Null

\* C24: when extractText reports a failure, that step stores status error, hands
\* the registry exactly one event, an error with stage extraction and retryable
\* false, and ends the invocation; an invocation ended so has called the analysis
\* never, has emitted no start event, and takes no further step.
C24_ExtractionFailureStops ==
    [][\A r \in DOMAIN runs :
          /\ ExtractReturn(r, "fail") =>
                 /\ sessions'[runs[r].sid].status = "error"
                 /\ Len(out') = 1
                 /\ out'[1].type = "error"
                 /\ out'[1].details.stage = "extraction"
                 /\ out'[1].details.retryable = FALSE
                 /\ runs'[r].pc = "done" /\ runs'[r].result = "extraction-error"
          /\ runs[r].result = "extraction-error" =>
                 /\ runs[r].calls = 0 /\ runs[r].starts = <<>> /\ runs[r].sleeps = 0
                 /\ runs'[r] = runs[r]]_vars

\* C24 witness of the divergence: extraction failed in an invocation started by
\* POST /process/:sessionId; the one error event went out and the analysis was not
\* called, but the session is not stored as error.
C24_Witness ==
    \E r \in DOMAIN runs :
        /\ runs[r].kind = "process" /\ runs[r].result = "extraction-error"
        /\ runs[r].calls = 0 /\ runs[r].starts = <<>>
        /\ Len(out) = 1 /\ out[1].type = "error" /\ out[1].details.stage = "extraction"
        /\ ~out[1].details.retryable
        /\ sessions[runs[r].sid].status # "error"

\* the status an event announces
StatusOf(type) ==
    CASE type = "extraction.started" -> "extracting"
      [] type = "extraction.completed" -> "extracted"
      [] type = "analysis.started" -> "analyzing"
      [] type = "retry.started" -> "retrying"
      [] type = "analysis.completed" -> "completed"
      [] type = "error" -> "error"
      [] OTHER -> Null

\* the statuses job s passes through in the step taken according to the events the
\* step emitted for it, from the status it had (uploaded for a new session)
Chain(s) ==
    LET evs == SelectSeq(out', LAMBDA e : e.sessionId = s /\ e.type # "analysis.streaming")
    IN  <<IF s \in DOMAIN sessions THEN sessions[s].status ELSE "uploaded">>
            \o [i \in 1..Len(evs) |-> StatusOf(evs[i].type)]

\* the step taken attaches a response
Attaching == \E c \in StreamIds : streams[c].state = "idle" /\ streams'[c].state = "open"

\* in what response c was written, each chunk follows the start event of its
\* attempt or the chunk before it
ChunksInOrder(c) ==
    \A i \in DOMAIN recv[c] :
        recv[c][i].type = "analysis.streaming" =>
            /\ i > 1
            /\ \/ IsStart(recv[c][i - 1]) /\ recv[c][i].chunk = 1
               \/ /\ recv[c][i - 1].type = "analysis.streaming"
                  /\ recv[c][i].chunk = recv[c][i - 1].chunk + 1

\* C25: the events a step emits for a job announce, in order, exactly the status
\* changes the step makes, ending at the stored status; a chunk is emitted in the
\* step that produces it, numbered next, after the start event of its attempt and
\* before the attempt's outcome; and a subscriber attached since before the
\* analysis was written the chunks of each attempt in that order after the
\* attempt's start event.
C25_EventsFollowTransitions ==
    /\ [](\A c \in StreamIds, s \in SessionIds : Watching(c, s) => ChunksInOrder(c))
    /\ [][/\ ~Attaching =>
                \A s \in DOMAIN sessions' :
                    LET chain == Chain(s)
                        n == Len(chain)
                    IN  /\ sessions'[s].status = chain[n]
                        /\ \A i \in 1..(n - 1) :
                               \/ <<chain[i], chain[i + 1]>> \in edges'[s]
                               \/ chain[i] = "retrying" /\ chain[i + 1] = "retrying"
                        /\ \A e \in edges'[s] \ edges[s] :
                               \E i \in 1..(n - 1) : e = <<chain[i], chain[i + 1]>>
         /\ \A r \in DOMAIN runs :
                runs'[r].chunks = runs[r].chunks + 1 =>
                    /\ Len(out') = 1
                    /\ out'[1].type = "analysis.streaming"
                    /\ out'[1].chunk = runs[r].chunks + 1
                    /\ runs[r].starts # <<>>
                    /\ runs[r].starts[Len(runs[r].starts)] = runs[r].n
                    /\ runs[r].result = "none"]_vars

\* C25 witness: a subscriber attached since before the analysis was written two
\* chunks of the first attempt, retry.started, two chunks of the second attempt and
\* the completed result, in this order.
C25_Witness ==
    \E c \in StreamIds, s \in SessionIds :
        /\ Watching(c, s)
        /\ \E i \in DOMAIN recv[c] :
               /\ i > 2 /\ i + 3 <= Len(recv[c])
               /\ recv[c][i - 2].chunk = 1 /\ recv[c][i - 1].chunk = 2
               /\ recv[c][i].type = "retry.started"
               /\ recv[c][i + 1].chunk = 1 /\ recv[c][i + 2].chunk = 2
               /\ recv[c][i + 3].type = "analysis.completed"

\* C26: a stored session has a feedback only while its status is completed.
C26_FeedbackOnlyWhenCompleted ==
    \A s \in DOMAIN sessions :
        sessions[s].feedback # Null => sessions[s].status = "completed"

\* C26 witness of the divergence: a completed session was sent to POST
\* /process/:sessionId/retry and is now retrying with its old feedback.
C26_Witness ==
    /\ resp.op = "process-retry" /\ resp.status = 200
    /\ sessions[resp.sid].status = "retrying"
    /\ sessions[resp.sid].feedback # Null
    /\ <<"completed", "retrying">> \in edges[resp.sid]

\* C27: a stored session has a lastError only while its status is error.
C27_LastErrorOnlyWhenError ==
    \A s \in DOMAIN sessions :
        sessions[s].lastError # Null => sessions[s].status = "error"

\* C27 witness: a session whose analysis ended in error, with lastError stored, was
\* reset by POST /events/:sessionId/retry and is retrying without lastError.
C27_Witness ==
    /\ resp.op = "sse-retry" /\ resp.status = 200
    /\ sessions[resp.sid].status = "retrying"
    /\ sessions[resp.sid].lastError = Null
    /\ {<<"analyzing", "error">>, <<"error", "retrying">>} \subseteq edges[resp.sid]

ModelNotFound404 == [status |-> 404, keyText |-> FALSE]
Unavailable503 == [status |-> 503, keyText |-> FALSE]

\* the step taken is the failure of an attempt of the upload orchestrator with
\* "model not found", answered by a successful reinitializeModel()
Switches(r) ==
    /\ runs[r].kind = "upload"
    /\ AnalyzeFailure(r, ModelNotFound404, TRUE)

\* C28: when an attempt fails with "model not found" and the model is
\* reinitialized, the next attempt is numbered one above the failed one and waits
\* the backoff of that number, exactly as after a retryable failure without a
\* switch: same stored session, same retry.started; the failed attempts, not the
\* switch, count toward maxRetries, so after attempt maxRetries has failed the
\* switch does not buy another one, and no invocation makes more than
\* maxRetries + 1 analysis calls.
C28_SwitchCostsNoAttempt ==
    /\ [](\A r \in DOMAIN runs : runs[r].n <= maxRetries /\ runs[r].calls <= runs[r].n + 1)
    /\ [][\A r \in DOMAIN runs :
              Switches(r) =>
                  IF runs[r].n < maxRetries
                  THEN /\ runs'[r].pc = "backoff"
                       /\ runs'[r].n = runs[r].n + 1
                       /\ runs'[r].delay = Backoff(runs[r].n + 1)
                       /\ runs'[r].calls = runs[r].calls
                       /\ Len(out') = 1 /\ out'[1].type = "retry.started"
                       /\ out'[1].attempt = runs[r].n + 1
                       /\ sessions'[runs[r].sid].retryCount = runs[r].n + 1
                       /\ <<sessions', edges', out'>> =
                              LET W == afterFailure(World, runs[r], Unavailable503, FALSE, now)
                              IN  <<W.sessions, W.edges, W.out>>
                  ELSE /\ runs'[r].pc = "done" /\ runs'[r].result = "analysis-error"
                       /\ runs'[r].calls = maxRetries + 1
                       /\ sessions'[runs[r].sid].status = "error"]_vars

\* C28 witness: the first attempt failed with "model not found", the model was
\* reinitialized, and the second analysis call, numbered 1, has completed.
C28_Witness ==
    \E r \in DOMAIN runs :
        /\ runs[r].kind = "upload" /\ runs[r].result = "completed" /\ runs[r].reinit
        /\ runs[r].n = 1 /\ runs[r].calls = 2 /\ runs[r].sleeps = 1
        /\ runs[r].delay = Backoff(1)
        /\ sessions[runs[r].sid].retryCount = 1
        /\ sessions[runs[r].sid].status = "completed"

\* the step taken ends workflow invocation r
Ends(r) ==
    /\ r \in DOMAIN runs'
    /\ runs'[r].pc = "done"
    /\ r \in DOMAIN runs => runs[r].pc # "done"

\* C29: no workflow invocation makes more than maxRetries + 1 analysis calls or
\* sleeps more than maxRetries backoffs, and the step that ends an invocation
\* leaves the session stored as completed or as error.
C29_RunEndsCompletedOrError ==
    [][\A r \in 1..MaxRuns :
          /\ r \in DOMAIN runs' =>
                 /\ runs'[r].calls <= maxRetries + 1
                 /\ runs'[r].sleeps <= maxRetries
          /\ Ends(r) =>
                 /\ runs'[r].sid \in DOMAIN sessions'
                 /\ sessions'[runs'[r].sid].status \in {"completed", "error"}]_vars

\* C29 witness of the divergence: an invocation started by POST /process/:sessionId
\* has ended after four failed analysis calls and three backoffs, and the session is
\* still stored as uploaded.
C29_Witness ==
    \E r \in DOMAIN runs :
        /\ runs[r].kind = "process" /\ runs[r].pc = "done"
        /\ runs[r].result = "analysis-error"
        /\ runs[r].calls = maxRetries + 1 /\ runs[r].sleeps = maxRetries
        /\ sessions[runs[r].sid].status = "uploaded"

\* the step taken starts workflow invocation r
Starts(r) == r \notin DOMAIN runs /\ r \in DOMAIN runs'

\* C30: when the GeminiService cannot be constructed for lack of the API key, the
\* step that starts a workflow invocation also ends it: it hands the registry one
\* event, an error from the initialization stage with retryable false, and no
\* extraction.started; the invocation has called neither collaborator and takes no
\* further step.
C30_NoKeyAbortsBeforeStages ==
    [][\A r \in 1..MaxRuns :
          /\ (Starts(r) /\ ~hasKey) =>
                 /\ runs'[r].pc = "done" /\ runs'[r].result = "init-error"
                 /\ Len(SelectSeq(out', LAMBDA e : e.type = "extraction.started")) = 0
                 /\ Len(SelectSeq(out', LAMBDA e : e.type = "error")) = 1
                 /\ out'[Len(out')].type = "error"
                 /\ out'[Len(out')].details.stage = "initialization"
                 /\ out'[Len(out')].details.retryable = FALSE
          /\ (r \in DOMAIN runs /\ runs[r].result = "init-error") =>
                 /\ runs[r].calls = 0 /\ runs[r].starts = <<>> /\ runs[r].chunks = 0
                 /\ runs[r].pc = "done"
                 /\ runs'[r] = runs[r]]_vars

\* C30 witness: without the API key, an invocation of each orchestrator has been
\* started and has ended at once, the last one handing over its one error event.
C30_Witness ==
    /\ ~hasKey
    /\ Len(runs) = 2
    /\ {runs[1].kind, runs[2].kind} = {"upload", "process"}
    /\ \A r \in DOMAIN runs : runs[r].result = "init-error" /\ runs[r].calls = 0
    /\ Len(out) = 1 /\ out[1].type = "error" /\ out[1].details.code = "AI_INIT_ERROR"

\* job s has no open registered response left
Deserted(s) == \A d \in StreamIds : Registered(d, s) => isDead(streams[d].state)

\* C31: once the responses attached to a job are all closed or removed, every
\* continuation of the job's workflow leaves the sessions and their status changes
\* as it would if a response had stayed attached; and a step that empties the job's
\* set of responses without being a workflow step (a close callback, the cleanup,
\* the heartbeat, the closing endpoint) leaves the sessions, their status changes
\* and the workflow invocations untouched.
C31_LastSubscriberLeaves ==
    /\ [](\A r \in DOMAIN runs, c \in StreamIds :
              (streams[c].sid = runs[r].sid /\ isDead(streams[c].state)
                  /\ Deserted(runs[r].sid))
              => JobsAgree(runs[r], World, Stayed(World, c)))
    /\ [][\A s \in SessionIds :
              (~Unwatched(s) /\ Unwatched(s)' /\ out' = <<>>)
              => sessions' = sessions /\ edges' = edges /\ runs' = runs]_vars

\* C31 witness: the only response ever attached to a job closed before the analysis
\* was over, and the job has completed with nobody attached.
C31_Witness ==
    \E s \in SessionIds, c \in StreamIds, r \in DOMAIN runs :
        /\ Unwatched(s)
        /\ streams[c].sid = s /\ streams[c].state = "closed"
        /\ \A d \in StreamIds \ {c} : streams[d].state = "idle"
        /\ recv[c][Len(recv[c])].type \in {"session.status", "extraction.completed",
                                           "analysis.started", "heartbeat", "session_closed"}
        /\ runs[r].sid = s /\ runs[r].pc = "done" /\ runs[r].result = "completed"
        /\ s \in DOMAIN sessions /\ sessions[s].status = "completed"
        /\ sessions[s].feedback # Null

\* C32: a registered response that is destroyed or finished is eventually out of
\* the registry; the fan-out of an event to its job and the heartbeat remove it, and
\* the cleanup removes exactly the destroyed and finished responses, every other
\* response staying registered.
C32_DeadEventuallyRemoved ==
    /\ \A c \in StreamIds, s \in SessionIds :
           (Registered(c, s) /\ isDead(streams[c].state)) ~> ~Registered(c, s)
    /\ [][\A c \in StreamIds, s \in SessionIds :
              /\ (Registered(c, s) /\ isDead(streams[c].state)
                     /\ (seq'[s] > seq[s] \/ resp'.op \in {"heartbeat", "sweep"}))
                 => ~Registered(c, s)'
              /\ resp'.op = "sweep"
                 => /\ Registered(c, s)' <=> (Registered(c, s) /\ ~isDead(streams[c].state))
                    /\ streams' = streams /\ recv' = recv]_vars

\* C32 witness: the cleanup has just run; it took a destroyed response whose close
\* callback has not fired out of the registry and left in the job's other response,
\* whose writes throw.
C32_Witness ==
    \E c, d \in StreamIds, s \in SessionIds :
        /\ resp.op = "sweep"
        /\ streams[c].sid = s /\ streams[c].state = "destroyed" /\ ~Registered(c, s)
        /\ streams[d].state = "broken" /\ Registered(d, s)

\* C33: a heartbeat writes one heartbeat entry to each open registered response of
\* each job, whatever the status of the job's session, writes nothing to any other
\* response, and leaves the sessions, their status changes and the workflow
\* invocations as they are.
C33_HeartbeatToAll ==
    [][resp'.op = "heartbeat"
          => /\ \A c \in StreamIds :
                    recv'[c] = IF streams[c].state = "open"
                                     /\ Registered(c, streams[c].sid)
                               THEN Append(recv[c], HeartbeatData)
                               ELSE recv[c]
             /\ sessions' = sessions /\ edges' = edges /\ runs' = runs
             /\ seq' = seq /\ streams' = streams]_vars

\* C33 witness: a heartbeat has just been written to a response of a job whose
\* session is completed and to a response of the other job.
C33_Witness ==
    \E c, d \in StreamIds :
        /\ resp.op = "heartbeat"
        /\ streams[c].state = "open" /\ streams[d].state = "open"
        /\ streams[c].sid # streams[d].sid
        /\ Registered(c, streams[c].sid) /\ Registered(d, streams[d].sid)
        /\ streams[c].sid \in DOMAIN sessions
        /\ sessions[streams[c].sid].status = "completed"
        /\ recv[c][Len(recv[c])] = HeartbeatData
        /\ recv[d][Len(recv[d])] = HeartbeatData

\* C34: a stored session whose expiry has passed is eventually out of the store; and
\* the cleanup removes exactly the sessions whose expiry has passed, answers how
\* many they were and leaves every other session as it was.
C34_ExpiredEventuallyRemoved ==
    /\ \A s \in SessionIds : Lapsed(s) ~> (s \notin DOMAIN sessions)
    /\ [][resp'.op = "cleanup"
              => /\ DOMAIN sessions' = {s \in DOMAIN sessions : ~Lapsed(s)}
                 /\ \A s \in DOMAIN sessions' : sessions'[s] = sessions[s]
                 /\ resp'.cleanedCount = Cardinality({s \in DOMAIN sessions : Lapsed(s)})]_vars

\* C34 witness: the cleanup has just removed one session and left another, which
\* is not expired, in the store.
C34_Witness ==
    /\ resp.op = "cleanup" /\ resp.cleanedCount = 1
    /\ Cardinality(DOMAIN sessions) = 1
    /\ \A s \in DOMAIN sessions : now <= sessions[s].expiresAt

\* readers of the store find no session for job s: it is absent or expired
Gone(s) == ~sessionExists(sessions, s, now)

\* the world W with a fresh, unexpired session stored for job s
Revived(W, s) ==
    [W EXCEPT !.sessions = createSession(W.sessions, [sessionId |-> s, status |-> "uploaded"], now)]

\* what a world says about the events and the responses
EventsOf(W) == <<W.out, W.recv, W.seq, W.connections>>

\* every continuation of invocation `run`, under every outcome of the collaborator
\* it waits for, emits from the world A the events it emits from the world B, to the
\* same responses
EmitsAs(run, A, B) ==
    /\ run.pc = "extract" =>
           \A outcome \in {"ok", "fail", "throw"} :
               EventsOf(afterExtract(A, run, outcome, now))
                   = EventsOf(afterExtract(B, run, outcome, now))
    /\ run.pc = "analyze" =>
           /\ EventsOf(afterChunk(A, run)) = EventsOf(afterChunk(B, run))
           /\ \A response \in Responses :
                  EventsOf(afterSuccess(A, run, response, now))
                      = EventsOf(afterSuccess(B, run, response, now))
           /\ \A error \in ProviderErrors, reinitSuccess \in BOOLEAN :
                  EventsOf(afterFailure(A, run, error, reinitSuccess, now))
                      = EventsOf(afterFailure(B, run, error, reinitSuccess, now))

\* C35: while the session of a workflow invocation is expired or removed, every
\* continuation of the invocation emits the events it would emit for a stored
\* session, to the same responses; its steps write each event to the open registered
\* responses of the job, end the invocation only with an analysis.completed or
\* error event, and leave the session absent for the readers of the store.
C35_ExpiryDoesNotAbort ==
    /\ [](\A r \in DOMAIN runs :
              Gone(runs[r].sid) => EmitsAs(runs[r], World, Revived(World, runs[r].sid)))
    /\ [][\A r \in DOMAIN runs :
              (runs'[r] # runs[r] /\ Gone(runs[r].sid))
              => /\ Gone(runs[r].sid)'
                 /\ \A c \in StreamIds :
                        (Registered(c, runs[r].sid) /\ streams[c].state = "open")
                        => recv'[c] = recv[c] \o [i \in 1..Len(out') |-> Written(out'[i])]
                 /\ runs'[r].pc = "done"
                        => /\ out' # <<>>
                           /\ out'[Len(out')].type \in {"analysis.completed", "error"}]_vars

\* C35 witness: the session expired while its text was being extracted; the
\* invocation went on through a retry to the result, which the attached response
\* was written, while the stored session still says extracting.
C35_Witness ==
    \E r \in DOMAIN runs :
        /\ runs[r].pc = "done" /\ runs[r].result = "completed" /\ runs[r].n >= 1
        /\ Lapsed(runs[r].sid) /\ sessions[runs[r].sid].status = "extracting"
        /\ Registered("c1", runs[r].sid) /\ streams["c1"].state = "open"
        /\ recv["c1"][Len(recv["c1"])].type = "analysis.completed"

\* C36: when the response handed to the attach route cannot be written, the
\* attachment returns false, the registry stays as it was, no snapshot is handed to
\* the fan-out and the session's expiry is not extended.
C36_AttachFailsGracefully ==
    [][\A c \in StreamIds :
          (streams[c].state = "idle" /\ streams'[c].state = "broken")
          => /\ resp'.created = FALSE
             /\ connections' = connections
             /\ out' = <<>>
             /\ sessions' = sessions]_vars

\* C36 witness of the divergence: a response that was never written anything is
\* registered for a job, and the job's session has had its expiry extended.
C36_Witness ==
    \E c \in StreamIds, s \in SessionIds :
        /\ Registered(c, s) /\ streams[c].state = "broken" /\ recv[c] = <<>>
        /\ s \in DOMAIN sessions
        /\ sessions[s].expiresAt = sessions[s].createdAt + 2 * defaultExpirationTime

\* C37: two workflow invocations for the same session are never in progress at the
\* same time.
C37_OneRunPerSession ==
    \A r, q \in DOMAIN runs :
        (r # q /\ runs[r].sid = runs[q].sid) => (runs[r].pc = "done" \/ runs[q].pc = "done")

\* C37 witness of the divergence: two invocations for one session are both waiting
\* for the provider's answer to an analysis call.
C37_Witness ==
    \E r, q \in DOMAIN runs :
        /\ r # q /\ runs[r].sid = runs[q].sid
        /\ runs[r].pc = "analyze" /\ runs[q].pc = "analyze"

\* C38: the step that attaches a response to a job writes it the connected
\* acknowledgment and one snapshot, and writes nothing to the responses that were
\* attached before.
C38_SnapshotToNewcomerOnly ==
    [][\A d \in StreamIds :
          (streams[d].state = "idle" /\ streams'[d].state = "open")
          => /\ Len(recv'[d]) = 2
             /\ recv'[d][2].type = SnapshotType(sessions[streams'[d].sid])
             /\ \A c \in StreamIds \ {d} : recv'[c] = recv[c]]_vars

\* C38 witness of the divergence: the snapshot written to a newly attached
\* response is also the last entry of a response attached to the job before it.
C38_Witness ==
    \E c, d \in StreamIds :
        /\ c # d /\ streams[c].sid = streams[d].sid
        /\ streams[c].state = "open" /\ streams[d].state = "open"
        /\ Len(recv[d]) = 2 /\ Len(recv[c]) >= 3
        /\ recv[d][2].type \in {"session.status", "analysis.completed"}
        /\ recv[c][Len(recv[c])] = recv[d][2]

\* C39: whenever an analysis.completed event is emitted for a job the stored session
\* is completed and holds the result, and whenever an error event is emitted the
\* stored session is in error and holds the error message.
C39_TerminalEventAfterStatus ==
    [][\A i \in DOMAIN out' :
          LET s == out'[i].sessionId
          IN  /\ out'[i].type = "analysis.completed"
                 => /\ s \in DOMAIN sessions'
                    /\ sessions'[s].status = "completed"
                    /\ sessions'[s].feedback # Null
              /\ out'[i].type = "error"
                 => /\ s \in DOMAIN sessions'
                    /\ sessions'[s].status = "error"
                    /\ sessions'[s].lastError # Null]_vars

\* C39 witness of the divergence: an invocation of the process.js orchestrator has
\* just emitted analysis.completed, and the stored session is not completed.
C39_Witness ==
    \E r \in DOMAIN runs :
        /\ runs[r].kind = "process" /\ runs[r].pc = "done" /\ runs[r].result = "completed"
        /\ out # <<>> /\ out[Len(out)].type = "analysis.completed"
        /\ out[Len(out)].sessionId = runs[r].sid
        /\ runs[r].sid \in DOMAIN sessions
        /\ sessions[runs[r].sid].status # "completed"

\* C40: the registry has an entry for a job exactly when a response is registered
\* for it, so no entry is an empty set and getConnectionCount is 0 exactly for the
\* jobs without an entry; a response is registered only for the job it attached
\* to; and the close or error callback of a response takes no other response out of
\* the registry.
C40_RegistryKeysOnlyForSubscribers ==
    /\ [](\A s \in SessionIds :
              /\ s \in DOMAIN connections <=> (\E c \in StreamIds : Registered(c, s))
              /\ s \in DOMAIN connections <=> getConnectionCount(connections, s) > 0
              /\ \A c \in StreamIds : Registered(c, s) => streams[c].sid = s)
    /\ [][\A c \in StreamIds :
              (streams[c].state # "closed" /\ streams'[c].state = "closed")
              => \A d \in StreamIds \ {c}, s \in SessionIds :
                     Registered(d, s) <=> Registered(d, s)']_vars

\* C40 witness: a response was closed by the closing of its job's connections, and
\* its close callback has fired while another response is registered for the job.
C40_Witness ==
    \E c, d \in StreamIds, s \in SessionIds :
        /\ c # d /\ streams[c].sid = s /\ streams[c].state = "closed"
        /\ recv[c] # <<>> /\ recv[c][Len(recv[c])] = SessionClosed
        /\ Registered(d, s) /\ streams[d].state = "open"
        /\ connections[s] = {d}
        /\ resp = NoResp /\ out = <<>>

====
